---- MODULE Spec2Model ----
(***************************************************************************)
(* Verification model of rsyslog's ruleset object (runtime/ruleset.c) and  *)
(* of the imtcp input module (plugins/imtcp/imtcp.c).                      *)
(*                                                                         *)
(* Three state machines share the module:                                  *)
(*   SpecBatch    - processBatch / processBatchMultiRuleset, one step per  *)
(*                  sub-batch and per rule invocation, with the shutdown   *)
(*                  flag set concurrently;                                 *)
(*   SpecRegistry - the ruleset registry (construct, finalize, lookup,     *)
(*                  set default / current, destroy all);                   *)
(*   SpecSession  - the imtcp session close callbacks.                     *)
(***************************************************************************)
EXTENDS Integers, Sequences, FiniteSets, TLC

(* ------------------------------ bounds --------------------------------- *)
MaxElem == 4
MaxElemFair == 3
MaxRulesets == 3
MaxSess == 3
MaxRules == 2
MaxParsers == 2
MaxInst == 2
MaxDirectives == 2

(* ----------------------------- constants ------------------------------- *)
NULL == 0
BATCH_STATE_RDY == "RDY"
BATCH_STATE_DISC == "DISC"
RS_RET_OK == "RS_RET_OK"
RS_RET_OUT_OF_MEMORY == "RS_RET_OUT_OF_MEMORY"
RS_RET_ERR == "RS_RET_ERR"
RS_RET_NOT_FOUND == "RS_RET_NOT_FOUND"
RS_RET_NO_CURR_RULESET == "RS_RET_NO_CURR_RULESET"
RS_RET_RULES_QUEUE_EXISTS == "RS_RET_RULES_QUEUE_EXISTS"
RS_RET_PARSER_NOT_FOUND == "RS_RET_PARSER_NOT_FOUND"
RS_RET_NO_LISTNERS == "RS_RET_NO_LISTNERS"
RS_RET_NO_RUN == "RS_RET_NO_RUN"
TCPSRV_NO_ADDTL_DELIMITER == -1
UNINIT == -2

VARIABLES
    (* ruleset registry: conf->rulesets *)
    llRulesets,        \* the registry list: sequence of [pKey, pData]
    llRulesetsCmp,     \* the key compare function the list was initialised with
    rulesetObj,        \* ruleset objects by pointer (1..MaxRulesets)
    pCurr,             \* conf->rulesets.pCurr
    pDflt,             \* conf->rulesets.pDflt
    pNew,              \* the ruleset under construction (the loader's local)
    lastOp,            \* the registry operation executed last, with its result
    (* batch router *)
    pUsrRuleset,       \* msg->pRuleset of each user message (index = pUsrp)
    pBatch,            \* the batch handed to processBatch
    snglRuleBatch,     \* processBatchMultiRuleset's temporary batch
    bShutdownImmediate,\* the cell pbShutdownImmediate points to
    pc,                \* position inside processBatch
    cur,               \* which batch the running rule iteration works on
    pThis,             \* ruleset of the running rule iteration
    iRule,             \* next rule of the running rule iteration
    iRetLL,            \* result accumulated by the running rule iteration
    bHaveUnprocessed,  \* processBatchMultiRuleset's loop predicate
    iRet,              \* processBatch's return value
    entryBatch,        \* history: pBatch on entry
    subLog,            \* history: sub-batches handed to processBatch
    ruleLog,           \* history: rule invocations
    errAt,             \* history: index in ruleLog of the first failed rule
    pendAtShut,        \* history: elements not yet dispatched when the flag was set
    (* imtcp sessions *)
    sess,              \* session table
    (* imtcp configuration *)
    cs,                \* the legacy config settings (static struct cs)
    pModConf,          \* the module config: instance list and module settings
    loadModConf,       \* non-NULL while a config is being loaded
    pOurTcpsrv,        \* the module's TCP server, NULL before it is constructed
    tcpsrvObj,         \* the server object: calls received, bindings, listeners
    cnfPhase,          \* which entry point the config framework calls next
    heap,              \* the allocations of addInstance that are live
    modRet,            \* the last return value of each entry point, and under
                       \* "last" the entry point or handler that ran last
    errLog,            \* messages the module logged
    nDirectives        \* number of setting directives processed

regVars == <<llRulesets, llRulesetsCmp, rulesetObj, pCurr, pDflt, pNew, lastOp>>
batchVars == <<pUsrRuleset, pBatch, snglRuleBatch, bShutdownImmediate, pc, cur,
               pThis, iRule, iRetLL, bHaveUnprocessed, iRet, entryBatch,
               subLog, ruleLog, errAt, pendAtShut>>
sessVars == <<sess>>
cnfVars == <<cs, pModConf, loadModConf, pOurTcpsrv, tcpsrvObj, cnfPhase, modRet, errLog,
             nDirectives, heap>>
vars == <<regVars, batchVars, sessVars, cnfVars>>

(* =========================== strings =================================== *)
(* Names are sequences of characters; tolower and strcasecmp are computed  *)
(* character by character as the C library does.                           *)
tolower(c) ==
    CASE c = "A" -> "a"
      [] c = "B" -> "b"
      [] OTHER -> c

RECURSIVE strEqFrom(_, _, _)
strEqFrom(s, t, i) ==
    IF i > Len(s) \/ i > Len(t)
    THEN Len(s) = Len(t)
    ELSE s[i] = t[i] /\ strEqFrom(s, t, i + 1)

RECURSIVE strCaseEqFrom(_, _, _)
strCaseEqFrom(s, t, i) ==
    IF i > Len(s) \/ i > Len(t)
    THEN Len(s) = Len(t)
    ELSE tolower(s[i]) = tolower(t[i]) /\ strCaseEqFrom(s, t, i + 1)

(* key comparison of the registry list: TRUE when cmp(a, b) == 0 *)
KeyEq(cmp, a, b) ==
    IF cmp = "strcasecmp" THEN strCaseEqFrom(a, b, 1) ELSE strEqFrom(a, b, 1)

Names == {<<"a">>, <<"A">>, <<"a", "b">>, <<"A", "B">>, <<"b">>}


(* ========================= ruleset registry ============================ *)
Rulesets == 1..MaxRulesets

(* a ruleset object; pszName is <<>> (NULL) or <<name>> *)
NoRuleset == [st |-> "free", pszName |-> <<>>, llRules |-> <<>>, pQueue |-> NULL,
              pParserLst |-> <<>>]

(* lastOp: the operation, its argument, its result, the ruleset it worked on   *)
(* and what it emitted (messages logged, callbacks called), in order          *)
NoOp == [op |-> "none", name |-> <<>>, ret |-> RS_RET_OK, p |-> NULL, log |-> <<>>]

Op(op, name, ret, p) == [op |-> op, name |-> name, ret |-> ret, p |-> p, log |-> <<>>]

(* llFind: the data of the first element whose key compares equal, NULL if none *)
RECURSIVE llFindFrom(_, _, _, _)
llFindFrom(ll, cmp, key, i) ==
    IF i > Len(ll)
    THEN NULL
    ELSE IF KeyEq(cmp, ll[i].pKey, key)
         THEN ll[i].pData
         ELSE llFindFrom(ll, cmp, key, i + 1)

llFind(key) == llFindFrom(llRulesets, llRulesetsCmp, key, 1)

(* llAppend on the registry: a key that is already present is an error *)
llAppend_ret(key) == IF llFind(key) # NULL THEN RS_RET_ERR ELSE RS_RET_OK

(* the outcomes of an allocation (ustrdup, malloc) *)
mallocResults == {RS_RET_OK, RS_RET_OUT_OF_MEMORY}

(* rulesetGetRuleset, lines 327-338: [ret, p] *)
rulesetGetRuleset(pszName) ==
    LET p == llFind(pszName)
    IN [ret |-> IF p = NULL THEN RS_RET_NOT_FOUND ELSE RS_RET_OK, p |-> p]

(* the lookup as an operation of the loader *)
GetRuleset(pszName) ==
    /\ lastOp' = Op("rulesetGetRuleset", pszName, rulesetGetRuleset(pszName).ret,
                    rulesetGetRuleset(pszName).p)
    /\ UNCHANGED <<llRulesets, llRulesetsCmp, rulesetObj, pCurr, pDflt, pNew>>
    /\ UNCHANGED <<batchVars, sessVars, cnfVars>>

(* mutant: the lookup result is not checked, the pointer is stored anyway *)
SetDefaultRuleset_noChk(pszName) ==
    /\ pDflt' = rulesetGetRuleset(pszName).p
    /\ lastOp' = Op("SetDefaultRuleset", pszName, rulesetGetRuleset(pszName).ret,
                    rulesetGetRuleset(pszName).p)
    /\ UNCHANGED <<llRulesets, llRulesetsCmp, rulesetObj, pCurr, pNew>>
    /\ UNCHANGED <<batchVars, sessVars, cnfVars>>

(* SetDefaultRuleset, lines 343-356 *)
SetDefaultRuleset(pszName) ==
    LET r == rulesetGetRuleset(pszName) IN
    /\ IF r.ret # RS_RET_OK
       THEN UNCHANGED pDflt
       ELSE pDflt' = r.p
    /\ lastOp' = Op("SetDefaultRuleset", pszName, r.ret, r.p)
    /\ UNCHANGED <<llRulesets, llRulesetsCmp, rulesetObj, pCurr, pNew>>
    /\ UNCHANGED <<batchVars, sessVars, cnfVars>>

(* SetCurrRuleset, lines 361-374 *)
SetCurrRuleset(pszName) ==
    LET r == rulesetGetRuleset(pszName) IN
    /\ IF r.ret # RS_RET_OK
       THEN UNCHANGED pCurr
       ELSE pCurr' = r.p
    /\ lastOp' = Op("SetCurrRuleset", pszName, r.ret, r.p)
    /\ UNCHANGED <<llRulesets, llRulesetsCmp, rulesetObj, pDflt, pNew>>
    /\ UNCHANGED <<batchVars, sessVars, cnfVars>>

(* rulesetConstruct, lines 391-396: a new object with an empty rule list; the *)
(* loader keeps it in pNew until it is finalized or destructed                *)
rulesetConstruct ==
    /\ pNew = NULL
    /\ \E p \in Rulesets :
          /\ rulesetObj[p].st = "free"
          /\ \A q \in Rulesets : rulesetObj[q].st = "free" => p <= q
          /\ rulesetObj' = [rulesetObj EXCEPT ![p] = [NoRuleset EXCEPT !.st = "constructed"]]
          /\ pNew' = p
          /\ lastOp' = Op("rulesetConstruct", <<>>, RS_RET_OK, p)
    /\ UNCHANGED <<llRulesets, llRulesetsCmp, pCurr, pDflt>>
    /\ UNCHANGED <<batchVars, sessVars, cnfVars>>

(* setName, lines 290-298: the old name is freed, the new one duplicated *)
setName(pszName) ==
    /\ pNew # NULL
    /\ \E dup \in mallocResults :
          /\ rulesetObj' = [rulesetObj EXCEPT ![pNew].pszName =
                               IF dup = RS_RET_OK THEN <<pszName>> ELSE <<>>]
          /\ lastOp' = Op("setName", pszName, dup, pNew)
    /\ UNCHANGED <<llRulesets, llRulesetsCmp, pCurr, pDflt, pNew>>
    /\ UNCHANGED <<batchVars, sessVars, cnfVars>>

(* mutant: the result of llAppend is not checked *)
rulesetConstructFinalize_noChk ==
    /\ pNew # NULL
    /\ rulesetObj[pNew].pszName # <<>>
    /\ LET keyName == rulesetObj[pNew].pszName[1]
           ret == llAppend_ret(keyName)
       IN /\ IF ret = RS_RET_OK
             THEN /\ llRulesets' = Append(llRulesets, [pKey |-> keyName, pData |-> pNew])
                  /\ rulesetObj' = [rulesetObj EXCEPT ![pNew].st = "live"]
                  /\ pNew' = NULL
             ELSE UNCHANGED <<llRulesets, rulesetObj, pNew>>
          /\ pCurr' = pNew
          /\ pDflt' = IF pDflt = NULL THEN pNew ELSE pDflt
          /\ lastOp' = Op("rulesetConstructFinalize", keyName, ret, pNew)
    /\ UNCHANGED llRulesetsCmp
    /\ UNCHANGED <<batchVars, sessVars, cnfVars>>

(* mutant: every finalized ruleset becomes the default *)
rulesetConstructFinalize_dfltAlways ==
    /\ pNew # NULL
    /\ rulesetObj[pNew].pszName # <<>>
    /\ \E dup \in mallocResults :
          LET keyName == rulesetObj[pNew].pszName[1]
              ret == IF dup # RS_RET_OK THEN dup ELSE llAppend_ret(keyName)
          IN /\ IF ret = RS_RET_OK
                THEN /\ llRulesets' = Append(llRulesets, [pKey |-> keyName, pData |-> pNew])
                     /\ rulesetObj' = [rulesetObj EXCEPT ![pNew].st = "live"]
                     /\ pCurr' = pNew
                     /\ pDflt' = pNew
                     /\ pNew' = NULL
                ELSE UNCHANGED <<llRulesets, rulesetObj, pCurr, pDflt, pNew>>
             /\ lastOp' = Op("rulesetConstructFinalize", keyName, ret, pNew)
    /\ UNCHANGED llRulesetsCmp
    /\ UNCHANGED <<batchVars, sessVars, cnfVars>>

(* rulesetConstructFinalize, lines 402-425 *)
rulesetConstructFinalize ==
    /\ pNew # NULL
    /\ rulesetObj[pNew].pszName # <<>>
    /\ \E dup \in mallocResults :
          LET keyName == rulesetObj[pNew].pszName[1]
              ret == IF dup # RS_RET_OK THEN dup ELSE llAppend_ret(keyName)
          IN /\ IF ret = RS_RET_OK
                THEN /\ llRulesets' = Append(llRulesets, [pKey |-> keyName, pData |-> pNew])
                     /\ rulesetObj' = [rulesetObj EXCEPT ![pNew].st = "live"]
                     /\ pCurr' = pNew
                     /\ pDflt' = IF pDflt = NULL THEN pNew ELSE pDflt
                     /\ pNew' = NULL
                ELSE UNCHANGED <<llRulesets, rulesetObj, pCurr, pDflt, pNew>>
             /\ lastOp' = Op("rulesetConstructFinalize", keyName, ret, pNew)
    /\ UNCHANGED llRulesetsCmp
    /\ UNCHANGED <<batchVars, sessVars, cnfVars>>

(* rulesetDestruct, lines 429-441: what it destroys of ruleset p, in order *)
rulesetDestruct_calls(p) ==
    (IF rulesetObj[p].pQueue # NULL
     THEN <<[ev |-> "qqueueDestruct", arg |-> <<p, rulesetObj[p].pQueue>>]>>
     ELSE <<>>)
    \o (IF rulesetObj[p].pParserLst # <<>>
        THEN <<[ev |-> "DestructParserList", arg |-> <<p, rulesetObj[p].pParserLst>>]>>
        ELSE <<>>)
    \o <<[ev |-> "llDestroy", arg |-> <<p, rulesetObj[p].llRules>>]>>

(* rulesetDestruct, lines 429-441, of the object a failed construct left over *)
rulesetDestruct ==
    /\ pNew # NULL
    /\ rulesetObj' = [rulesetObj EXCEPT ![pNew] = [NoRuleset EXCEPT !.st = "destroyed"]]
    /\ pNew' = NULL
    /\ lastOp' = [Op("rulesetDestruct", <<>>, RS_RET_OK, pNew)
                    EXCEPT !.log = rulesetDestruct_calls(pNew)]
    /\ UNCHANGED <<llRulesets, llRulesetsCmp, pCurr, pDflt>>
    /\ UNCHANGED <<batchVars, sessVars, cnfVars>>

(* the rulesets the registry list holds *)
Registered == {llRulesets[i].pData : i \in 1..Len(llRulesets)}

(* llDestroy on the registry list: the destructor runs on every element *)
RECURSIVE llDestroy_calls(_, _)
llDestroy_calls(ll, i) ==
    IF i > Len(ll)
    THEN <<>>
    ELSE rulesetDestruct_calls(ll[i].pData) \o llDestroy_calls(ll, i + 1)

(* mutant: the default pointer is left as it is *)
destructAllActions_keepDflt ==
    /\ rulesetObj' = [p \in Rulesets |->
                         IF p \in Registered
                         THEN [NoRuleset EXCEPT !.st = "destroyed"]
                         ELSE rulesetObj[p]]
    /\ llRulesets' = <<>>
    /\ llRulesetsCmp' = "strcasecmp"
    /\ lastOp' = [Op("destructAllActions", <<>>, RS_RET_OK, NULL)
                    EXCEPT !.log = llDestroy_calls(llRulesets, 1)]
    /\ UNCHANGED <<pCurr, pDflt, pNew>>
    /\ UNCHANGED <<batchVars, sessVars, cnfVars>>

(* mutant: the list is set up again with a case-sensitive compare *)
destructAllActions_strcmp ==
    /\ rulesetObj' = [p \in Rulesets |->
                         IF p \in Registered
                         THEN [NoRuleset EXCEPT !.st = "destroyed"]
                         ELSE rulesetObj[p]]
    /\ llRulesets' = <<>>
    /\ llRulesetsCmp' = "strcmp"
    /\ pDflt' = NULL
    /\ lastOp' = [Op("destructAllActions", <<>>, RS_RET_OK, NULL)
                    EXCEPT !.log = llDestroy_calls(llRulesets, 1)]
    /\ UNCHANGED <<pCurr, pNew>>
    /\ UNCHANGED <<batchVars, sessVars, cnfVars>>

(* destructAllActions, lines 450-461: llDestroy runs rulesetDestruct on every *)
(* ruleset of the list, the list is set up again and pDflt is cleared         *)
destructAllActions ==
    /\ rulesetObj' = [p \in Rulesets |->
                         IF p \in Registered
                         THEN [NoRuleset EXCEPT !.st = "destroyed"]
                         ELSE rulesetObj[p]]
    /\ llRulesets' = <<>>
    /\ llRulesetsCmp' = "strcasecmp"
    /\ pDflt' = NULL
    /\ lastOp' = [Op("destructAllActions", <<>>, RS_RET_OK, NULL)
                    EXCEPT !.log = llDestroy_calls(llRulesets, 1)]
    /\ UNCHANGED <<pCurr, pNew>>
    /\ UNCHANGED <<batchVars, sessVars, cnfVars>>


(* ------------------------- rules of a ruleset -------------------------- *)
(* a rule with one action *)
Rule(id) == [id |-> id, llActList |-> <<id>>]

(* the name of the n-th selector line of a ruleset *)
RuleName(n) ==
    CASE n = 1 -> "r1"
      [] n = 2 -> "r2"
      [] n = 3 -> "r3"
      [] OTHER -> "r4"

(* the rules the loader hands to addRule for ruleset p holding n rules: the   *)
(* next selector line, without action or with two actions (action objects are *)
(* told apart by the ruleset, the rule and the position they were made for)   *)
RuleInputs(p, n) ==
    LET id == RuleName(n + 1) IN
    {[id |-> id, llActList |-> <<>>],
     [id |-> id, llActList |-> <<[rs |-> p, rule |-> id, act |-> 1],
                                 [rs |-> p, rule |-> id, act |-> 2]>>]}

(* llAppend on a rule list (key NULL): the element is allocated or not *)
llAppendRule_ret == {RS_RET_OK, RS_RET_OUT_OF_MEMORY}

LogMsg(text) == [ev |-> "LogError", arg |-> text]

(* mutant: the rule is stored whatever its number of actions *)
addRule_noCnt(p, pRule) ==
    /\ rulesetObj[p].st \in {"constructed", "live"}
    /\ Len(rulesetObj[p].llRules) < MaxRules
    /\ \E ret \in llAppendRule_ret :
          /\ rulesetObj' = IF ret = RS_RET_OK
                           THEN [rulesetObj EXCEPT ![p].llRules = Append(@, pRule)]
                           ELSE rulesetObj
          /\ lastOp' = Op("addRule", <<pRule>>, ret, p)
    /\ UNCHANGED <<llRulesets, llRulesetsCmp, pCurr, pDflt, pNew>>
    /\ UNCHANGED <<batchVars, sessVars, cnfVars>>

(* addRule, lines 266-286 *)
addRule(p, pRule) ==
    /\ rulesetObj[p].st \in {"constructed", "live"}
    /\ Len(rulesetObj[p].llRules) < MaxRules
    /\ LET iActionCnt == Len(pRule.llActList) IN
       IF iActionCnt = 0
       THEN /\ lastOp' = [Op("addRule", <<pRule>>, RS_RET_OK, p) EXCEPT !.log =
                             <<LogMsg("warning: selector line without actions will be discarded"),
                               [ev |-> "rule.Destruct", arg |-> pRule.id]>>]
            /\ UNCHANGED rulesetObj
       ELSE \E ret \in llAppendRule_ret :
               /\ rulesetObj' = IF ret = RS_RET_OK
                                THEN [rulesetObj EXCEPT ![p].llRules = Append(@, pRule)]
                                ELSE rulesetObj
               /\ lastOp' = Op("addRule", <<pRule>>, ret, p)
    /\ UNCHANGED <<llRulesets, llRulesetsCmp, pCurr, pDflt, pNew>>
    /\ UNCHANGED <<batchVars, sessVars, cnfVars>>

(* ------------------ directives on the current ruleset ------------------ *)
(* Where a dereference of pCurr lands. destructAllActions frees the rulesets   *)
(* but leaves pCurr (lines 455-457), so pCurr may point to freed memory: the   *)
(* access then reaches the stale bytes (NULL: nothing the program still owns)  *)
(* or, when the allocator handed the memory out again, the ruleset under       *)
(* construction.                                                               *)
CurrTargets ==
    IF rulesetObj[pCurr].st = "live"
    THEN {pCurr}
    ELSE {NULL} \cup (IF pNew # NULL THEN {pNew} ELSE {})

(* createMainQueue: the queue is created or the call fails *)
createMainQueueResults == {RS_RET_OK, RS_RET_ERR}

(* the queue objects; a new one is never the one the ruleset already has *)
Queues == 1..2

NewQueue(old) == CHOOSE q \in Queues : q # old /\ \A r \in Queues : r # old => q <= r

(* mutant: an existing queue is not looked at *)
doRulesetCreateQueue_noExists(pNewVal) ==
    /\ pCurr # NULL
    /\ rulesetObj[pCurr].st = "live"
    /\ pNewVal # 0
    /\ rulesetObj' = [rulesetObj EXCEPT ![pCurr].pQueue = NewQueue(@)]
    /\ lastOp' = Op("doRulesetCreateQueue", <<pNewVal>>, RS_RET_OK, pCurr)
    /\ UNCHANGED <<llRulesets, llRulesetsCmp, pCurr, pDflt, pNew>>
    /\ UNCHANGED <<batchVars, sessVars, cnfVars>>

(* doRulesetCreateQueue, lines 512-539 *)
doRulesetCreateQueue(pNewVal) ==
    /\ IF pCurr = NULL
       THEN /\ lastOp' = [Op("doRulesetCreateQueue", <<pNewVal>>, RS_RET_NO_CURR_RULESET, NULL)
                             EXCEPT !.log = <<LogMsg(RS_RET_NO_CURR_RULESET)>>]
            /\ UNCHANGED rulesetObj
       ELSE \E t \in CurrTargets, stale \in {NULL, 1} :
              LET pQueue == IF t = NULL THEN stale ELSE rulesetObj[t].pQueue IN
              IF pQueue # NULL
              THEN /\ lastOp' = [Op("doRulesetCreateQueue", <<pNewVal>>,
                                    RS_RET_RULES_QUEUE_EXISTS, t)
                                    EXCEPT !.log = <<LogMsg(RS_RET_RULES_QUEUE_EXISTS)>>]
                   /\ UNCHANGED rulesetObj
              ELSE IF pNewVal = 0
              THEN /\ lastOp' = Op("doRulesetCreateQueue", <<pNewVal>>, RS_RET_OK, t)
                   /\ UNCHANGED rulesetObj
              ELSE \E ret \in createMainQueueResults :
                      /\ rulesetObj' = IF ret = RS_RET_OK /\ t # NULL
                                       THEN [rulesetObj EXCEPT ![t].pQueue = NewQueue(@)]
                                       ELSE rulesetObj
                      /\ lastOp' = Op("doRulesetCreateQueue", <<pNewVal>>, ret, t)
    /\ UNCHANGED <<llRulesets, llRulesetsCmp, pCurr, pDflt, pNew>>
    /\ UNCHANGED <<batchVars, sessVars, cnfVars>>

(* the parsers registered with the parser class, and the names a directive    *)
(* may carry                                                                   *)
ParserRegistry == {"rfc5424"}

ParserNames == {"rfc5424", "nosuch"}

(* parser.FindParser: the parser of that name, or RS_RET_PARSER_NOT_FOUND *)
FindParser(pName) ==
    IF pName \in ParserRegistry
    THEN [ret |-> RS_RET_OK, pParser |-> pName]
    ELSE [ret |-> RS_RET_PARSER_NOT_FOUND, pParser |-> NULL]

(* objUse(parser, CORE_COMPONENT) and parser.AddParserToList succeed or fail *)
objUseResults == {RS_RET_OK, RS_RET_ERR}

AddParserToListResults == {RS_RET_OK, RS_RET_OUT_OF_MEMORY}

(* doRulesetAddParser, lines 556-583 *)
doRulesetAddParser(pName) ==
    /\ pCurr # NULL
    /\ \E use \in objUseResults, t \in CurrTargets :
         IF use # RS_RET_OK
         THEN /\ lastOp' = Op("doRulesetAddParser", <<pName>>, use, t)
              /\ UNCHANGED rulesetObj
         ELSE LET f == FindParser(pName) IN
              IF f.ret = RS_RET_PARSER_NOT_FOUND
              THEN /\ lastOp' = [Op("doRulesetAddParser", <<pName>>, RS_RET_NO_CURR_RULESET, t)
                                    EXCEPT !.log = <<LogMsg(RS_RET_PARSER_NOT_FOUND)>>]
                   /\ UNCHANGED rulesetObj
              ELSE IF f.ret # RS_RET_OK
              THEN /\ lastOp' = [Op("doRulesetAddParser", <<pName>>, f.ret, t)
                                    EXCEPT !.log = <<LogMsg(f.ret)>>]
                   /\ UNCHANGED rulesetObj
              ELSE \E ret \in AddParserToListResults :
                      /\ t # NULL => Len(rulesetObj[t].pParserLst) < MaxParsers
                      /\ rulesetObj' = IF ret = RS_RET_OK /\ t # NULL
                                       THEN [rulesetObj EXCEPT ![t].pParserLst =
                                                Append(@, f.pParser)]
                                       ELSE rulesetObj
                      /\ lastOp' = Op("doRulesetAddParser", <<pName>>, ret, t)
    /\ UNCHANGED <<llRulesets, llRulesetsCmp, pCurr, pDflt, pNew>>
    /\ UNCHANGED <<batchVars, sessVars, cnfVars>>

(* =========================== batch router ============================== *)
(* the rules (llRules) of a ruleset object *)
RulesOf(rs) == rulesetObj[rs].llRules

(* batch.h accessors: the ruleset of an element is the ruleset of its message; *)
(* the ruleset of a batch is the ruleset of its first element.                 *)
batchElemGetRuleset(b, i) == pUsrRuleset[b.pElem[i].pUsrp]

batchGetRuleset(b) == IF b.nElem > 0 THEN batchElemGetRuleset(b, 1) ELSE NULL

UsrOf(b) == [i \in 1..b.nElem |-> b.pElem[i].pUsrp]

(* a batch that is not allocated *)
NoBatch ==
    [nElem |-> 0, pElem |-> <<>>, bSingleRuleset |-> FALSE, pbShutdownImmediate |-> NULL]

(* the outcomes of batchInit: the allocation succeeds or fails *)
batchInitResults == {RS_RET_OK, RS_RET_OUT_OF_MEMORY}

(* search for the first unprocessed element: the for loop of line 175 *)
RECURSIVE SearchStart(_, _)
SearchStart(b, i) ==
    IF i <= b.nElem /\ b.pElem[i].state = BATCH_STATE_DISC
    THEN SearchStart(b, i + 1)
    ELSE i

(* mutant: the DISCARDED mark is set for every element passed, matching or not *)
RECURSIVE PartitionLoop_markAll(_, _, _, _)
PartitionLoop_markAll(st, i, n, currRuleset) ==
    IF i > n
    THEN st
    ELSE IF pUsrRuleset[st.orig[i].pUsrp] = currRuleset
         THEN PartitionLoop_markAll(
                  [st EXCEPT !.sub = Append(@, [pUsrp |-> st.orig[i].pUsrp,
                                                state |-> st.orig[i].state]),
                             !.orig[i].state = BATCH_STATE_DISC],
                  i + 1, n, currRuleset)
         ELSE PartitionLoop_markAll([st EXCEPT !.bHaveUnprocessed = 1,
                                               !.orig[i].state = BATCH_STATE_DISC],
                                    i + 1, n, currRuleset)

(* mutant: the temporary batch is filled from its end (iNew counts down) *)
RECURSIVE PartitionLoop_reversed(_, _, _, _)
PartitionLoop_reversed(st, i, n, currRuleset) ==
    IF i > n
    THEN st
    ELSE IF pUsrRuleset[st.orig[i].pUsrp] = currRuleset
         THEN PartitionLoop_reversed(
                  [st EXCEPT !.sub = <<[pUsrp |-> st.orig[i].pUsrp,
                                        state |-> st.orig[i].state]>> \o @,
                             !.orig[i].state = BATCH_STATE_DISC],
                  i + 1, n, currRuleset)
         ELSE PartitionLoop_reversed([st EXCEPT !.bHaveUnprocessed = 1], i + 1, n,
                                     currRuleset)

(* the copy loop of lines 185-196; st = [orig, sub, bHaveUnprocessed] *)
RECURSIVE PartitionLoop(_, _, _, _)
PartitionLoop(st, i, n, currRuleset) ==
    IF i > n
    THEN st
    ELSE IF pUsrRuleset[st.orig[i].pUsrp] = currRuleset
         THEN PartitionLoop(
                  [st EXCEPT !.sub = Append(@, [pUsrp |-> st.orig[i].pUsrp,
                                                state |-> st.orig[i].state]),
                             !.orig[i].state = BATCH_STATE_DISC],
                  i + 1, n, currRuleset)
         ELSE PartitionLoop([st EXCEPT !.bHaveUnprocessed = 1], i + 1, n, currRuleset)

(* the shutdown flag reference the temporary batch is given (line 182) *)
SubBatchShutdownRef(b) == b.pbShutdownImmediate

(* mutant: the batch's own ruleset is not looked at *)
processBatch_pThis_dfltOnly(b) == pDflt

(* the ruleset whose rules processBatch runs (lines 223-225) *)
processBatch_pThis(b) ==
    IF batchGetRuleset(b) = NULL THEN pDflt ELSE batchGetRuleset(b)

(* the batch the running rule iteration works on *)
CurBatch == IF cur = "sub" THEN snglRuleBatch ELSE pBatch

(* rule.ProcessBatch: the rule works on the elements that are not DISCARDED   *)
(* and may mark one of them DISCARDED; with the shutdown flag set (seen       *)
(* through the batch's reference) it touches nothing.  d = 0: no discard.     *)
rule_ProcessBatch(b, d) ==
    IF d = 0 \/ (b.pbShutdownImmediate # NULL /\ bShutdownImmediate)
    THEN b
    ELSE [b EXCEPT !.pElem[d].state = BATCH_STATE_DISC]

(* llExecFunc: the rule visited after rule i has returned ret *)
llExecFunc_next(i, ret) == i + 1

(* llExecFunc: the result it reports with acc so far and ret from this rule *)
llExecFunc_ret(acc, ret) == IF acc # RS_RET_OK THEN acc ELSE ret

(* ------------------------- iterateAllActions --------------------------- *)
(* rule.IterateAllActions: pFunc is called on the actions of the rule in the   *)
(* order of its action list                                                    *)
rule_IterateAllActions(pRule) ==
    [k \in 1..Len(pRule.llActList) |-> [ev |-> "pFunc", arg |-> pRule.llActList[k]]]

(* iterateRulesetAllActions, lines 90-103: llExecFunc over the rules *)
RECURSIVE iterateRulesetAllActions(_, _, _)
iterateRulesetAllActions(llRules, i, fnRet) ==
    IF i > Len(llRules)
    THEN <<>>
    ELSE rule_IterateAllActions(llRules[i])
           \o iterateRulesetAllActions(llRules, llExecFunc_next(i, fnRet), fnRet)

(* mutant: the rulesets are visited last to first *)
RECURSIVE iterateAllActions_calls_rev(_, _, _)
iterateAllActions_calls_rev(ll, i, fnRet) ==
    IF i > Len(ll)
    THEN <<>>
    ELSE iterateRulesetAllActions(rulesetObj[ll[Len(ll) + 1 - i].pData].llRules, 1, fnRet)
           \o iterateAllActions_calls_rev(ll, llExecFunc_next(i, fnRet), fnRet)

(* iterateAllActions, lines 119-132: llExecFunc over the registry list; the    *)
(* calls of pFunc it makes, in order                                           *)
RECURSIVE iterateAllActions_calls(_, _, _)
iterateAllActions_calls(ll, i, fnRet) ==
    IF i > Len(ll)
    THEN <<>>
    ELSE iterateRulesetAllActions(rulesetObj[ll[i].pData].llRules, 1, fnRet)
           \o iterateAllActions_calls(ll, llExecFunc_next(i, fnRet), fnRet)

(* the results pFunc may return *)
pFuncResults == {RS_RET_OK, RS_RET_ERR}

iterateAllActions ==
    /\ \E fnRet \in pFuncResults :
          LET calls == iterateAllActions_calls(llRulesets, 1, fnRet) IN
          lastOp' = [Op("iterateAllActions", <<>>,
                        IF calls = <<>> THEN RS_RET_OK ELSE llExecFunc_ret(RS_RET_OK, fnRet),
                        NULL)
                       EXCEPT !.log = calls]
    /\ UNCHANGED <<llRulesets, llRulesetsCmp, rulesetObj, pCurr, pDflt, pNew>>
    /\ UNCHANGED <<batchVars, sessVars, cnfVars>>

(* processBatch, lines 215-230: take the single-ruleset path or partition *)
processBatch_call ==
    /\ pc = "call"
    /\ IF pBatch.bSingleRuleset
       THEN /\ pc' = "rules"
            /\ cur' = "orig"
            /\ pThis' = processBatch_pThis(pBatch)
            /\ iRule' = 1
            /\ iRetLL' = RS_RET_OK
       ELSE /\ pc' = "partition"
            /\ UNCHANGED <<cur, pThis, iRule, iRetLL>>
    /\ UNCHANGED <<pUsrRuleset, pBatch, snglRuleBatch, bShutdownImmediate,
                   bHaveUnprocessed, iRet, entryBatch, subLog, ruleLog, errAt,
                   pendAtShut>>
    /\ UNCHANGED <<regVars, sessVars, cnfVars>>

(* processBatchMultiRuleset, lines 172-200: one pass of the do loop up to    *)
(* the call of processBatch on the temporary batch                           *)
processBatchMultiRuleset_pass ==
    /\ pc = "partition"
    /\ LET iStart == SearchStart(pBatch, 1) IN
       IF iStart = pBatch.nElem + 1
       THEN /\ pc' = "done"
            /\ bHaveUnprocessed' = 0
            /\ UNCHANGED <<pBatch, snglRuleBatch, cur, pThis, iRule, iRetLL, iRet, subLog>>
       ELSE \E initRet \in batchInitResults :
            IF initRet # RS_RET_OK
            THEN /\ pc' = "done"
                 /\ iRet' = initRet
                 /\ bHaveUnprocessed' = 0
                 /\ UNCHANGED <<pBatch, snglRuleBatch, cur, pThis, iRule, iRetLL, subLog>>
            ELSE LET currRuleset == batchElemGetRuleset(pBatch, iStart)
                     r == PartitionLoop([orig |-> pBatch.pElem, sub |-> <<>>,
                                         bHaveUnprocessed |-> 0],
                                        iStart, pBatch.nElem, currRuleset)
                     sub == [nElem |-> Len(r.sub), pElem |-> r.sub,
                             bSingleRuleset |-> TRUE,
                             pbShutdownImmediate |-> SubBatchShutdownRef(pBatch)]
                 IN /\ pBatch' = [pBatch EXCEPT !.pElem = r.orig]
                    /\ snglRuleBatch' = sub
                    /\ bHaveUnprocessed' = r.bHaveUnprocessed
                    /\ subLog' = Append(subLog,
                                    [rs |-> currRuleset, elems |-> UsrOf(sub),
                                     ref |-> sub.pbShutdownImmediate,
                                     shut |-> bShutdownImmediate])
                    /\ cur' = "sub"
                    /\ pThis' = processBatch_pThis(sub)
                    /\ iRule' = 1
                    /\ iRetLL' = RS_RET_OK
                    /\ pc' = "rules"
                    /\ UNCHANGED iRet
    /\ UNCHANGED <<pUsrRuleset, bShutdownImmediate, entryBatch, ruleLog, errAt, pendAtShut>>
    /\ UNCHANGED <<regVars, sessVars, cnfVars>>

(* mutant: the rule works on the original batch while a sub-batch is processed *)
processBatchDoRules_onOrig ==
    /\ pc = "rules"
    /\ iRule <= Len(RulesOf(pThis))
    /\ \E ret \in {RS_RET_OK, RS_RET_ERR}, d \in 0..CurBatch.nElem :
          /\ ruleLog' = Append(ruleLog,
                           [rs |-> pThis, rule |-> RulesOf(pThis)[iRule].id,
                            elems |-> UsrOf(CurBatch),
                            sub |-> IF cur = "sub" THEN Len(subLog) ELSE 0,
                            shut |-> bShutdownImmediate])
          /\ errAt' = IF errAt = 0 /\ ret # RS_RET_OK THEN Len(ruleLog) + 1 ELSE errAt
          /\ IF cur = "sub"
             THEN /\ pBatch' = rule_ProcessBatch(pBatch, d)
                  /\ UNCHANGED snglRuleBatch
             ELSE /\ pBatch' = rule_ProcessBatch(pBatch, d)
                  /\ UNCHANGED snglRuleBatch
          /\ iRule' = llExecFunc_next(iRule, ret)
          /\ iRetLL' = llExecFunc_ret(iRetLL, ret)
    /\ UNCHANGED <<pUsrRuleset, bShutdownImmediate, pc, cur, pThis, bHaveUnprocessed,
                   iRet, entryBatch, subLog, pendAtShut>>
    /\ UNCHANGED <<regVars, sessVars, cnfVars>>

(* processBatchDoRules, lines 140-148, called by llExecFunc for the next rule *)
processBatchDoRules ==
    /\ pc = "rules"
    /\ iRule <= Len(RulesOf(pThis))
    /\ \E ret \in {RS_RET_OK, RS_RET_ERR}, d \in 0..CurBatch.nElem :
          /\ ruleLog' = Append(ruleLog,
                           [rs |-> pThis, rule |-> RulesOf(pThis)[iRule].id,
                            elems |-> UsrOf(CurBatch),
                            sub |-> IF cur = "sub" THEN Len(subLog) ELSE 0,
                            shut |-> bShutdownImmediate])
          /\ errAt' = IF errAt = 0 /\ ret # RS_RET_OK THEN Len(ruleLog) + 1 ELSE errAt
          /\ IF cur = "sub"
             THEN /\ snglRuleBatch' = rule_ProcessBatch(snglRuleBatch, d)
                  /\ UNCHANGED pBatch
             ELSE /\ pBatch' = rule_ProcessBatch(pBatch, d)
                  /\ UNCHANGED snglRuleBatch
          /\ iRule' = llExecFunc_next(iRule, ret)
          /\ iRetLL' = llExecFunc_ret(iRetLL, ret)
    /\ UNCHANGED <<pUsrRuleset, bShutdownImmediate, pc, cur, pThis, bHaveUnprocessed,
                   iRet, entryBatch, subLog, pendAtShut>>
    /\ UNCHANGED <<regVars, sessVars, cnfVars>>

(* processBatch, lines 227-235, single-ruleset batch of the caller: llExecFunc *)
(* is through and its result is returned                                       *)
processBatch_return ==
    /\ pc = "rules"
    /\ cur = "orig"
    /\ iRule > Len(RulesOf(pThis))
    /\ pc' = "done"
    /\ iRet' = iRetLL
    /\ UNCHANGED <<pUsrRuleset, pBatch, snglRuleBatch, bShutdownImmediate, cur, pThis,
                   iRule, iRetLL, bHaveUnprocessed, entryBatch, subLog, ruleLog,
                   errAt, pendAtShut>>
    /\ UNCHANGED <<regVars, sessVars, cnfVars>>

(* mutant: the loop ends after the first pass, whatever bHaveUnprocessed says *)
processBatchMultiRuleset_next_once ==
    /\ pc = "rules"
    /\ cur = "sub"
    /\ iRule > Len(RulesOf(pThis))
    /\ snglRuleBatch' = NoBatch
    /\ cur' = "orig"
    /\ pc' = "done"
    /\ UNCHANGED <<pUsrRuleset, pBatch, bShutdownImmediate, pThis, iRule, iRetLL,
                   bHaveUnprocessed, iRet, entryBatch, subLog, ruleLog, errAt,
                   pendAtShut>>
    /\ UNCHANGED <<regVars, sessVars, cnfVars>>

(* mutant: the result of processBatch is checked (CHKiRet) and ends the loop *)
processBatchMultiRuleset_next_chk ==
    /\ pc = "rules"
    /\ cur = "sub"
    /\ iRule > Len(RulesOf(pThis))
    /\ snglRuleBatch' = NoBatch
    /\ cur' = "orig"
    /\ IF iRetLL # RS_RET_OK
       THEN pc' = "done" /\ iRet' = iRetLL
       ELSE /\ pc' = IF bHaveUnprocessed = 1 THEN "partition" ELSE "done"
            /\ UNCHANGED iRet
    /\ UNCHANGED <<pUsrRuleset, pBatch, bShutdownImmediate, pThis, iRule, iRetLL,
                   bHaveUnprocessed, entryBatch, subLog, ruleLog, errAt,
                   pendAtShut>>
    /\ UNCHANGED <<regVars, sessVars, cnfVars>>

(* processBatchMultiRuleset, lines 200-202: processBatch on the temporary    *)
(* batch has returned (its result is dropped), the batch is freed and the    *)
(* loop predicate decides                                                     *)
processBatchMultiRuleset_next ==
    /\ pc = "rules"
    /\ cur = "sub"
    /\ iRule > Len(RulesOf(pThis))
    /\ snglRuleBatch' = NoBatch
    /\ cur' = "orig"
    /\ pc' = IF bHaveUnprocessed = 1 THEN "partition" ELSE "done"
    /\ UNCHANGED <<pUsrRuleset, pBatch, bShutdownImmediate, pThis, iRule, iRetLL,
                   bHaveUnprocessed, iRet, entryBatch, subLog, ruleLog, errAt,
                   pendAtShut>>
    /\ UNCHANGED <<regVars, sessVars, cnfVars>>

(* another thread sets the shutdown flag the batch refers to *)
SetShutdownImmediate ==
    /\ pc # "done"
    /\ ~bShutdownImmediate
    /\ bShutdownImmediate' = TRUE
    /\ pendAtShut' = IF pc \in {"partition", "rules"} /\ Len(subLog) >= 1
                     THEN {pBatch.pElem[i].pUsrp : i \in
                              {j \in 1..pBatch.nElem :
                                  pBatch.pElem[j].state # BATCH_STATE_DISC}}
                     ELSE {}
    /\ UNCHANGED <<pUsrRuleset, pBatch, snglRuleBatch, pc, cur, pThis, iRule, iRetLL,
                   bHaveUnprocessed, iRet, entryBatch, subLog, ruleLog, errAt>>
    /\ UNCHANGED <<regVars, sessVars, cnfVars>>



(* ========================== imtcp sessions ============================= *)
Sessions == 1..MaxSess

(* a session: st none/open/closed, or dropped when the server closed the       *)
(* incoming stream without creating it; pending: an incomplete frame is buffered; *)
(* calls: the tcps_sess methods called on it; emitted: messages the close     *)
(* flushed; cb: the close callback that ran                                    *)
NoSess == [st |-> "none", pending |-> FALSE, calls |-> <<>>, emitted |-> 0,
           cb |-> "none"]

SessIdle == sess = [s \in Sessions |-> NoSess]

(* tcps_sess.PrepareClose: an incomplete frame left over is submitted *)
tcps_sess_PrepareClose(se) ==
    [se EXCEPT !.calls = Append(@, "PrepareClose"),
               !.emitted = IF se.pending THEN @ + 1 ELSE @,
               !.pending = FALSE]

(* tcps_sess.Close: the session is closed *)
tcps_sess_Close(se) ==
    [se EXCEPT !.calls = Append(@, "Close"), !.st = "closed"]

(* the server accepts a connection and creates the session *)
SessAccept(s) ==
    /\ sess[s].st = "none"
    /\ sess' = [sess EXCEPT ![s].st = "open"]
    /\ UNCHANGED <<regVars, batchVars, cnfVars>>

(* doRcvData, lines 151-162: bytes are received; afterwards the session's     *)
(* buffer holds an incomplete frame or not                                     *)
doRcvData(s) ==
    /\ sess[s].st = "open"
    /\ \E partial \in BOOLEAN : sess' = [sess EXCEPT ![s].pending = partial]
    /\ UNCHANGED <<regVars, batchVars, cnfVars>>

(* mutant: the two calls are swapped *)
onRegularClose_swapped(s) ==
    /\ sess[s].st = "open"
    /\ sess' = [sess EXCEPT ![s] =
                   [tcps_sess_PrepareClose(tcps_sess_Close(sess[s])) EXCEPT !.cb = "regular"]]
    /\ UNCHANGED <<regVars, batchVars, cnfVars>>

(* onRegularClose, lines 164-175 *)
onRegularClose(s) ==
    /\ sess[s].st = "open"
    /\ sess' = [sess EXCEPT ![s] =
                   [tcps_sess_Close(tcps_sess_PrepareClose(sess[s])) EXCEPT !.cb = "regular"]]
    /\ UNCHANGED <<regVars, batchVars, cnfVars>>

(* onErrClose, lines 178-186 *)
onErrClose(s) ==
    /\ sess[s].st = "open"
    /\ sess' = [sess EXCEPT ![s] = [tcps_sess_Close(sess[s]) EXCEPT !.cb = "error"]]
    /\ UNCHANGED <<regVars, batchVars, cnfVars>>

(* ======================== imtcp configuration ========================== *)
(* A string pointer is <<>> (NULL) or <<string>>. Ruleset names are sequences  *)
(* of characters, as in the registry.                                          *)

(* struct configSettings_s cs as the C runtime initialises static data *)
csStatic ==
    [iTCPSessMax |-> 0, iTCPLstnMax |-> 0, bSuppOctetFram |-> 0, iStrmDrvrMode |-> 0,
     bKeepAlive |-> 0, bEmitMsgOnClose |-> 0, iAddtlFrameDelim |-> 0,
     bDisableLFDelim |-> 0, bUseFlowControl |-> 0, pszStrmDrvrAuthMode |-> <<>>,
     pszInputName |-> <<>>, pszBindRuleset |-> <<>>]

(* the directives that store a value in cs (modInit, lines 474-499) which the *)
(* config files of the model use, each with the values they give it           *)
DirectiveValues ==
    [iTCPSessMax |-> {10}, bSuppOctetFram |-> {0},
     pszStrmDrvrAuthMode |-> {<< <<"a", "n", "o", "n">> >>},
     pszInputName |-> {<< <<"i", "n", "1">> >>},
     pszBindRuleset |-> {<< <<"a">> >>, << <<"A", "B">> >>, << <<"z">> >>}]

(* p == NULL || p[0] == '\0' *)
IsNullOrEmpty(p) == p = <<>> \/ p[1] = <<>>

(* resetConfigVariables, lines 428-445: what it assigns *)
resetConfigVariables_cs(c) ==
    [c EXCEPT !.iTCPSessMax = 200, !.iTCPLstnMax = 20, !.bSuppOctetFram = 1,
              !.iStrmDrvrMode = 0, !.bUseFlowControl = 0, !.bKeepAlive = 0,
              !.bEmitMsgOnClose = 0, !.iAddtlFrameDelim = TCPSRV_NO_ADDTL_DELIMITER,
              !.bDisableLFDelim = 0, !.pszInputName = <<>>,
              !.pszStrmDrvrAuthMode = <<>>]

NoModConf ==
    [root |-> <<>>, iTCPSessMax |-> 0, iTCPLstnMax |-> 0, iStrmDrvrMode |-> 0,
     iAddtlFrameDelim |-> 0, bSuppOctetFram |-> 0, bDisableLFDelim |-> 0,
     bUseFlowControl |-> 0, bKeepAlive |-> 0, bEmitMsgOnClose |-> 0,
     pszStrmDrvrAuthMode |-> <<>>]

NoTcpsrv == [calls |-> <<>>, pRuleset |-> NULL, pszInputName |-> <<>>, lstn |-> <<>>,
             iSessMax |-> 0]

(* the session cap a server has from its construction until SetSessMax *)
TCPSESS_MAX_DEFAULT == 200

NoModRet == [e \in {"addInstance", "checkCnf", "activateCnfPrePrivDrop",
                    "resetConfigVariables", "last"} |-> "none"]

(* entry point fn ran and returned ret *)
Returned_by(fn, ret) == [modRet EXCEPT ![fn] = ret, !["last"] = fn]

(* entry point or handler fn ran; it has no result the module looks at *)
Ran(fn) == [modRet EXCEPT !["last"] = fn]

imtcpFrame == <<regVars, batchVars, sessVars>>

(* beginCnfLoad, lines 291-298 *)
beginCnfLoad ==
    /\ cnfPhase = "init"
    /\ loadModConf' = 1
    /\ pModConf' = NoModConf
    /\ cs' = resetConfigVariables_cs([cs EXCEPT !.pszStrmDrvrAuthMode = <<>>])
    /\ cnfPhase' = "load"
    /\ modRet' = Ran("beginCnfLoad")
    /\ UNCHANGED <<pOurTcpsrv, tcpsrvObj, errLog, nDirectives>>
    /\ UNCHANGED <<heap, imtcpFrame>>

(* a directive whose handler stores its value in cs (lines 474-499); the config *)
(* files of the model hold at most MaxDirectives such lines and resets         *)
setDirective(field, val) ==
    /\ cnfPhase = "load"
    /\ nDirectives < MaxDirectives
    /\ nDirectives' = nDirectives + 1
    /\ cs' = [cs EXCEPT ![field] = val]
    /\ modRet' = Ran("setDirective")
    /\ UNCHANGED <<pModConf, loadModConf, pOurTcpsrv, tcpsrvObj, cnfPhase, errLog>>
    /\ UNCHANGED <<heap, imtcpFrame>>

(* the resetconfigvariables directive: resetConfigVariables, lines 428-445 *)
resetConfigVariables ==
    /\ cnfPhase = "load"
    /\ nDirectives < MaxDirectives
    /\ nDirectives' = nDirectives + 1
    /\ cs' = resetConfigVariables_cs(cs)
    /\ modRet' = Returned_by("resetConfigVariables", RS_RET_OK)
    /\ UNCHANGED <<pModConf, loadModConf, pOurTcpsrv, tcpsrvObj, cnfPhase, errLog>>
    /\ UNCHANGED <<heap, imtcpFrame>>

(* the port argument of inputtcpserverrun: empty, or a port *)
PortArgs == {<<"">>, <<"514">>}

(* an allocation: the node of the i-th instance created, or a string it owns *)
Alloc(i, what) == [inst |-> i, what |-> what]

(* lines 214-226: what addInstance allocates for inst, the i-th instance *)
Allocated(i, inst) ==
    {Alloc(i, "node"), Alloc(i, "pszBindPort")}
    \cup (IF inst.pszBindRuleset # <<>> THEN {Alloc(i, "pszBindRuleset")} ELSE {})
    \cup (IF inst.pszInputName # <<>> THEN {Alloc(i, "pszInputName")} ELSE {})

(* mutant: the new instance is put at the head of the list *)
addInstance_atHead(pNewVal) ==
    /\ cnfPhase = "load"
    /\ loadModConf # NULL
    /\ Len(pModConf.root) < MaxInst
    /\ \E alloc \in mallocResults :
         IF alloc # RS_RET_OK
         THEN /\ modRet' = Returned_by("addInstance", alloc)
              /\ UNCHANGED <<pModConf, heap>>
         ELSE LET inst == [pszBindPort |-> IF pNewVal = <<>> \/ pNewVal[1] = ""
                                             THEN "10514" ELSE pNewVal[1],
                           pszBindRuleset |-> IF IsNullOrEmpty(cs.pszBindRuleset)
                                              THEN <<>> ELSE cs.pszBindRuleset,
                           pBindRuleset |-> UNINIT,
                           pszInputName |-> IF IsNullOrEmpty(cs.pszInputName)
                                            THEN <<>> ELSE cs.pszInputName,
                           bSuppOctetFram |-> cs.bSuppOctetFram]
              IN /\ pModConf' = [pModConf EXCEPT !.root = <<inst>> \o @]
                 /\ heap' = heap \cup Allocated(Len(pModConf.root) + 1, inst)
                 /\ modRet' = Returned_by("addInstance", RS_RET_OK)
    /\ UNCHANGED <<cs, loadModConf, pOurTcpsrv, tcpsrvObj, cnfPhase, errLog, nDirectives>>
    /\ UNCHANGED imtcpFrame

(* addInstance, lines 209-242; the allocation that may fail is the first one,  *)
(* the node (line 214)                                                         *)
addInstance(pNewVal) ==
    /\ cnfPhase = "load"
    /\ loadModConf # NULL
    /\ Len(pModConf.root) < MaxInst
    /\ \E alloc \in mallocResults :
         IF alloc # RS_RET_OK
         THEN /\ modRet' = Returned_by("addInstance", alloc)
              /\ UNCHANGED <<pModConf, heap>>
         ELSE LET inst == [pszBindPort |-> IF pNewVal = <<>> \/ pNewVal[1] = ""
                                             THEN "10514" ELSE pNewVal[1],
                           pszBindRuleset |-> IF IsNullOrEmpty(cs.pszBindRuleset)
                                              THEN <<>> ELSE cs.pszBindRuleset,
                           pBindRuleset |-> UNINIT,
                           pszInputName |-> IF IsNullOrEmpty(cs.pszInputName)
                                            THEN <<>> ELSE cs.pszInputName,
                           bSuppOctetFram |-> cs.bSuppOctetFram]
              IN /\ pModConf' = [pModConf EXCEPT !.root = Append(@, inst)]
                 /\ heap' = heap \cup Allocated(Len(pModConf.root) + 1, inst)
                 /\ modRet' = Returned_by("addInstance", RS_RET_OK)
    /\ UNCHANGED <<cs, loadModConf, pOurTcpsrv, tcpsrvObj, cnfPhase, errLog, nDirectives>>
    /\ UNCHANGED imtcpFrame

(* endCnfLoad, lines 301-322 *)
endCnfLoad ==
    /\ cnfPhase = "load"
    /\ pModConf' = [pModConf EXCEPT
                       !.iTCPSessMax = cs.iTCPSessMax,
                       !.iTCPLstnMax = cs.iTCPLstnMax,
                       !.iStrmDrvrMode = cs.iStrmDrvrMode,
                       !.bEmitMsgOnClose = cs.bEmitMsgOnClose,
                       !.bSuppOctetFram = cs.bSuppOctetFram,
                       !.iAddtlFrameDelim = cs.iAddtlFrameDelim,
                       !.bDisableLFDelim = cs.bDisableLFDelim,
                       !.bUseFlowControl = cs.bUseFlowControl,
                       !.bKeepAlive = cs.bKeepAlive,
                       !.pszStrmDrvrAuthMode =
                           IF IsNullOrEmpty(cs.pszStrmDrvrAuthMode)
                           THEN <<>> ELSE cs.pszStrmDrvrAuthMode]
    /\ cs' = [cs EXCEPT !.pszStrmDrvrAuthMode = <<>>]
    /\ loadModConf' = NULL
    /\ cnfPhase' = "loaded"
    /\ modRet' = Ran("endCnfLoad")
    /\ UNCHANGED <<pOurTcpsrv, tcpsrvObj, errLog, nDirectives>>
    /\ UNCHANGED <<heap, imtcpFrame>>

(* mutant: pBindRuleset is assigned only when the name is found *)
std_checkRuleset_keep(inst) ==
    IF inst.pszBindRuleset = <<>>
    THEN [inst |-> [inst EXCEPT !.pBindRuleset = NULL], msgs |-> <<>>]
    ELSE LET r == rulesetGetRuleset(inst.pszBindRuleset[1]) IN
         IF r.ret = RS_RET_OK
         THEN [inst |-> [inst EXCEPT !.pBindRuleset = r.p], msgs |-> <<>>]
         ELSE [inst |-> inst,
               msgs |-> <<[ev |-> "LogError", arg |-> "ruleset not found - using default ruleset instead",
                           ruleset |-> inst.pszBindRuleset[1], port |-> inst.pszBindPort]>>]

(* std_checkRuleset (im-helper.h) on one instance: the bind ruleset name is    *)
(* looked up in the registry; [inst, msgs]                                     *)
std_checkRuleset(inst) ==
    IF inst.pszBindRuleset = <<>>
    THEN [inst |-> [inst EXCEPT !.pBindRuleset = NULL], msgs |-> <<>>]
    ELSE LET r == rulesetGetRuleset(inst.pszBindRuleset[1]) IN
         IF r.ret = RS_RET_OK
         THEN [inst |-> [inst EXCEPT !.pBindRuleset = r.p], msgs |-> <<>>]
         ELSE [inst |-> [inst EXCEPT !.pBindRuleset = NULL],
               msgs |-> <<[ev |-> "LogError", arg |-> "ruleset not found - using default ruleset instead",
                           ruleset |-> inst.pszBindRuleset[1], port |-> inst.pszBindPort]>>]

RECURSIVE checkCnf_msgs(_, _)
checkCnf_msgs(root, i) ==
    IF i > Len(root)
    THEN <<>>
    ELSE std_checkRuleset(root[i]).msgs \o checkCnf_msgs(root, i + 1)

(* checkCnf, lines 334-345 *)
checkCnf ==
    /\ cnfPhase = "loaded"
    /\ pModConf' = [pModConf EXCEPT !.root =
                       [i \in 1..Len(pModConf.root) |-> std_checkRuleset(pModConf.root[i]).inst]]
    /\ IF pModConf.root = <<>>
       THEN /\ errLog' = errLog \o checkCnf_msgs(pModConf.root, 1)
                            \o <<[ev |-> "LogError", arg |-> RS_RET_NO_LISTNERS]>>
            /\ modRet' = Returned_by("checkCnf", RS_RET_NO_LISTNERS)
       ELSE /\ errLog' = errLog \o checkCnf_msgs(pModConf.root, 1)
            /\ modRet' = Returned_by("checkCnf", RS_RET_OK)
    /\ cnfPhase' = "checked"
    /\ UNCHANGED <<cs, loadModConf, pOurTcpsrv, tcpsrvObj, nDirectives>>
    /\ UNCHANGED <<heap, imtcpFrame>>

(* lines 372-376: what freeCnf frees of the i-th instance *)
Freed(i) == {Alloc(i, "pszBindPort"), Alloc(i, "pszInputName"), Alloc(i, "node")}

(* freeCnf, lines 368-378: the instance list of a loaded config is freed; the  *)
(* config object itself is released by the caller                              *)
freeCnf ==
    /\ cnfPhase \in {"loaded", "checked", "activated"}
    /\ heap' = heap \ UNION {Freed(i) : i \in 1..Len(pModConf.root)}
    /\ pModConf' = NoModConf
    /\ cnfPhase' = "freed"
    /\ modRet' = Ran("freeCnf")
    /\ UNCHANGED <<cs, loadModConf, pOurTcpsrv, tcpsrvObj, errLog, nDirectives>>
    /\ UNCHANGED imtcpFrame

(* ------------------------------ addListner ----------------------------- *)
Call(fn, arg) == [fn |-> fn, arg |-> arg]

(* the five callbacks handed to the server, lines 253-257 *)
CallbackSetters == <<"SetCBIsPermittedHost", "SetCBRcvData", "SetCBOpenLstnSocks",
                     "SetCBOnRegularClose", "SetCBOnErrClose">>

(* the permitted-peer list; the directive that fills it is not part of the model *)
pPermPeersRoot == <<>>

(* mutant: the listener cap is handed over as the session cap *)
SetupCalls_lstnAsSess(modConf) ==
    <<Call("Construct", <<>>)>>
    \o [i \in 1..Len(CallbackSetters) |-> Call(CallbackSetters[i], CallbackSetters[i])]
    \o <<Call("SetKeepAlive", modConf.bKeepAlive),
         Call("SetSessMax", modConf.iTCPLstnMax),
         Call("SetLstnMax", modConf.iTCPLstnMax),
         Call("SetDrvrMode", modConf.iStrmDrvrMode),
         Call("SetUseFlowControl", modConf.bUseFlowControl),
         Call("SetAddtlFrameDelim", modConf.iAddtlFrameDelim),
         Call("SetbDisableLFDelim", modConf.bDisableLFDelim),
         Call("SetNotificationOnRemoteClose", modConf.bEmitMsgOnClose)>>
    \o (IF modConf.pszStrmDrvrAuthMode # <<>>
        THEN <<Call("SetDrvrAuthMode", modConf.pszStrmDrvrAuthMode)>> ELSE <<>>)
    \o (IF pPermPeersRoot # <<>>
        THEN <<Call("SetDrvrPermPeers", pPermPeersRoot)>> ELSE <<>>)

(* lines 251-273: the calls that construct and set up the server *)
SetupCalls(modConf) ==
    <<Call("Construct", <<>>)>>
    \o [i \in 1..Len(CallbackSetters) |-> Call(CallbackSetters[i], CallbackSetters[i])]
    \o <<Call("SetKeepAlive", modConf.bKeepAlive),
         Call("SetSessMax", modConf.iTCPSessMax),
         Call("SetLstnMax", modConf.iTCPLstnMax),
         Call("SetDrvrMode", modConf.iStrmDrvrMode),
         Call("SetUseFlowControl", modConf.bUseFlowControl),
         Call("SetAddtlFrameDelim", modConf.iAddtlFrameDelim),
         Call("SetbDisableLFDelim", modConf.bDisableLFDelim),
         Call("SetNotificationOnRemoteClose", modConf.bEmitMsgOnClose)>>
    \o (IF modConf.pszStrmDrvrAuthMode # <<>>
        THEN <<Call("SetDrvrAuthMode", modConf.pszStrmDrvrAuthMode)>> ELSE <<>>)
    \o (IF pPermPeersRoot # <<>>
        THEN <<Call("SetDrvrPermPeers", pPermPeersRoot)>> ELSE <<>>)

(* mutant: the listener is configured before the ruleset and input name are set *)
ListenCalls_listenFirst(inst) ==
    <<Call("configureTCPListen", <<inst.pszBindPort, inst.bSuppOctetFram>>),
      Call("SetRuleset", inst.pBindRuleset),
      Call("SetInputName", IF inst.pszInputName = <<>>
                           THEN <<"i", "m", "t", "c", "p">> ELSE inst.pszInputName[1])>>

(* lines 278-281: the calls that bind and configure one listener *)
ListenCalls(inst) ==
    <<Call("SetRuleset", inst.pBindRuleset),
      Call("SetInputName", IF inst.pszInputName = <<>>
                           THEN <<"i", "m", "t", "c", "p">> ELSE inst.pszInputName[1]),
      Call("configureTCPListen", <<inst.pszBindPort, inst.bSuppOctetFram>>)>>

(* the tcpsrv calls whose failure the model considers; "none": no call fails.  *)
(* configureTCPListen returns nothing that addListner looks at (line 281)      *)
FailFns == {"none", "Construct", "SetSessMax", "SetRuleset"}

(* what a call that succeeded does to the module's server pointer and the      *)
(* server object: st = [p, srv]                                                *)
tcpsrvDo(st, c) ==
    LET logged == [st.srv EXCEPT !.calls = Append(@, [fn |-> c.fn, arg |-> c.arg,
                                                      ret |-> RS_RET_OK])]
    IN CASE c.fn = "Construct" ->
               [p |-> 1, srv |-> [logged EXCEPT !.iSessMax = TCPSESS_MAX_DEFAULT]]
         [] c.fn = "SetSessMax" -> [st EXCEPT !.srv = [logged EXCEPT !.iSessMax = c.arg]]
         [] c.fn = "SetRuleset" -> [st EXCEPT !.srv = [logged EXCEPT !.pRuleset = c.arg]]
         [] c.fn = "SetInputName" -> [st EXCEPT !.srv = [logged EXCEPT !.pszInputName = c.arg]]
         [] c.fn = "configureTCPListen" ->
               [st EXCEPT !.srv = [logged EXCEPT !.lstn =
                    Append(@, [port |-> c.arg[1], bSuppOctetFram |-> c.arg[2],
                               pRuleset |-> logged.pRuleset,
                               pszInputName |-> logged.pszInputName])]]
         [] OTHER -> [st EXCEPT !.srv = logged]

(* CHKiRet over a sequence of calls: the first call that fails ends it *)
RECURSIVE CHKiRet_calls(_, _, _, _)
CHKiRet_calls(st, calls, i, failFn) ==
    IF i > Len(calls)
    THEN [st |-> st, ret |-> RS_RET_OK]
    ELSE IF calls[i].fn = failFn
         THEN [st |-> [st EXCEPT !.srv.calls =
                          Append(@, [fn |-> calls[i].fn, arg |-> calls[i].arg,
                                     ret |-> RS_RET_ERR])],
               ret |-> RS_RET_ERR]
         ELSE CHKiRet_calls(tcpsrvDo(st, calls[i]), calls, i + 1, failFn)

(* addListner, lines 245-288: [st, ret] *)
addListner(st, modConf, inst, failFn) ==
    CHKiRet_calls(st,
                  (IF st.p = NULL THEN SetupCalls(modConf) ELSE <<>>) \o ListenCalls(inst),
                  1, failFn)

(* activateCnfPrePrivDrop, lines 352-354: addListner for every instance, its   *)
(* result is not looked at; [st, msgs]                                         *)
RECURSIVE activate_loop(_, _, _, _)
activate_loop(st, modConf, i, fails) ==
    IF i > Len(modConf.root)
    THEN [st |-> st, msgs |-> <<>>]
    ELSE LET r == addListner(st, modConf, modConf.root[i], fails[i])
             rest == activate_loop(r.st, modConf, i + 1, fails)
         IN [st |-> rest.st,
             msgs |-> (IF r.ret # RS_RET_OK
                       THEN <<[ev |-> "LogError", arg |-> "error trying to add listener"]>>
                       ELSE <<>>) \o rest.msgs]

ConstructFinalizeResults == {RS_RET_OK, RS_RET_ERR}

(* which call fails in the addListner of each of n instances: the activations  *)
(* the model runs have at most one instance whose addListner meets a failure   *)
FailVectors(n) ==
    {f \in [1..n -> FailFns] : Cardinality({i \in 1..n : f[i] # "none"}) <= 1}

(* mutant: the server is finalized without the pOurTcpsrv == NULL test of line 355 *)
activateCnfPrePrivDrop_noNullTest ==
    /\ cnfPhase = "checked"
    /\ \E fails \in FailVectors(Len(pModConf.root)), fin \in ConstructFinalizeResults :
         LET r == activate_loop([p |-> pOurTcpsrv, srv |-> tcpsrvObj], pModConf, 1, fails) IN
         /\ pOurTcpsrv' = r.st.p
         /\ errLog' = errLog \o r.msgs
         /\ tcpsrvObj' = [r.st.srv EXCEPT !.calls =
                              Append(@, [fn |-> "ConstructFinalize", arg |-> <<>>,
                                         ret |-> fin])]
         /\ modRet' = Returned_by("activateCnfPrePrivDrop", fin)
    /\ cnfPhase' = "activated"
    /\ UNCHANGED <<cs, pModConf, loadModConf, nDirectives>>
    /\ UNCHANGED <<heap, imtcpFrame>>

(* activateCnfPrePrivDrop, lines 348-359 *)
activateCnfPrePrivDrop ==
    /\ cnfPhase = "checked"
    /\ \E fails \in FailVectors(Len(pModConf.root)), fin \in ConstructFinalizeResults :
         LET r == activate_loop([p |-> pOurTcpsrv, srv |-> tcpsrvObj], pModConf, 1, fails) IN
         /\ pOurTcpsrv' = r.st.p
         /\ errLog' = errLog \o r.msgs
         /\ IF r.st.p = NULL
            THEN /\ fin = RS_RET_OK
                 /\ tcpsrvObj' = r.st.srv
                 /\ modRet' = Returned_by("activateCnfPrePrivDrop", RS_RET_NO_RUN)
            ELSE /\ tcpsrvObj' = [r.st.srv EXCEPT !.calls =
                                     Append(@, [fn |-> "ConstructFinalize", arg |-> <<>>,
                                                ret |-> fin])]
                 /\ modRet' = Returned_by("activateCnfPrePrivDrop", fin)
    /\ cnfPhase' = "activated"
    /\ UNCHANGED <<cs, pModConf, loadModConf, nDirectives>>
    /\ UNCHANGED <<heap, imtcpFrame>>

(* ------------------------- the running server ------------------------- *)
(* activation succeeded and at least one listener is configured *)
ServerRunning ==
    /\ cnfPhase = "activated"
    /\ pOurTcpsrv # NULL
    /\ modRet["activateCnfPrePrivDrop"] = RS_RET_OK
    /\ tcpsrvObj.lstn # <<>>

OpenSessions == {s \in Sessions : sess[s].st = "open"}

(* the server's accept on incoming stream s: with the session cap reached the  *)
(* stream is closed and no session is created, otherwise the session is opened *)
tcpsrvAccept(s) ==
    /\ ServerRunning
    /\ sess[s].st = "none"
    /\ IF Cardinality(OpenSessions) >= tcpsrvObj.iSessMax
       THEN sess' = [sess EXCEPT ![s].st = "dropped"]
       ELSE sess' = [sess EXCEPT ![s].st = "open"]
    /\ UNCHANGED <<regVars, batchVars, cnfVars>>

(* ===================== specifications ================================== *)
BatchIdle ==
    /\ pUsrRuleset = <<>>
    /\ pBatch = NoBatch
    /\ entryBatch = NoBatch
    /\ snglRuleBatch = NoBatch
    /\ bShutdownImmediate = FALSE
    /\ pc = "idle"
    /\ cur = "orig"
    /\ pThis = NULL
    /\ iRule = 1
    /\ iRetLL = RS_RET_OK
    /\ bHaveUnprocessed = 0
    /\ iRet = RS_RET_OK
    /\ subLog = <<>>
    /\ ruleLog = <<>>
    /\ errAt = 0
    /\ pendAtShut = {}

RegistryEmpty ==
    /\ llRulesets = <<>>
    /\ llRulesetsCmp = "strcasecmp"
    /\ rulesetObj = [p \in Rulesets |-> NoRuleset]
    /\ pCurr = NULL
    /\ pDflt = NULL
    /\ pNew = NULL
    /\ lastOp = NoOp

(* the module after modInit, before any config is loaded *)
CnfIdle ==
    /\ cs = csStatic
    /\ pModConf = NoModConf
    /\ loadModConf = NULL
    /\ pOurTcpsrv = NULL
    /\ tcpsrvObj = NoTcpsrv
    /\ cnfPhase = "init"
    /\ modRet = NoModRet
    /\ errLog = <<>>
    /\ nDirectives = 0
    /\ heap = {}

InitRegistry == RegistryEmpty /\ BatchIdle /\ SessIdle /\ CnfIdle

NextRegistry ==
    \/ rulesetConstruct
    \/ \E n \in Names : setName(n)
    \/ rulesetConstructFinalize
    \/ rulesetDestruct
    \/ \E n \in Names : GetRuleset(n)
    \/ \E n \in Names : SetDefaultRuleset(n)
    \/ \E n \in Names : SetCurrRuleset(n)
    \/ destructAllActions

SpecRegistry == InitRegistry /\ [][NextRegistry]_vars

(* the registry under the directives of a configuration load *)
DirNames == {<<"a">>, <<"b">>}

NextDirectives ==
    \/ rulesetConstruct
    \/ \E n \in DirNames : setName(n)
    \/ rulesetConstructFinalize
    \/ \E n \in DirNames : SetCurrRuleset(n)
    \/ \E p \in Rulesets :
          /\ p = pCurr
          /\ \E r \in RuleInputs(p, Len(rulesetObj[p].llRules)) : addRule(p, r)
    \/ \E v \in {0, 1} : doRulesetCreateQueue(v)
    \/ \E n \in ParserNames : doRulesetAddParser(n)
    \/ iterateAllActions
    \/ destructAllActions

SpecDirectives == InitRegistry /\ [][NextDirectives]_vars

InitSession == RegistryEmpty /\ BatchIdle /\ SessIdle /\ CnfIdle

NextSession ==
    \/ \E s \in Sessions : SessAccept(s)
    \/ \E s \in Sessions : doRcvData(s)
    \/ \E s \in Sessions : onRegularClose(s)
    \/ \E s \in Sessions : onErrClose(s)

SpecSession == InitSession /\ [][NextSession]_vars

(* ----- registry and sessions as the batch router finds them ----- *)
BatchRulesetObj ==
    [p \in Rulesets |->
        IF p = 1 THEN [NoRuleset EXCEPT !.st = "live", !.pszName = << <<"a">> >>,
                                        !.llRules = <<Rule("r1"), Rule("r2")>>]
        ELSE IF p = 2 THEN [NoRuleset EXCEPT !.st = "live", !.pszName = << <<"a", "b">> >>,
                                             !.llRules = <<Rule("r3")>>]
        ELSE NoRuleset]

BatchRegistryInit ==
    /\ llRulesets = <<[pKey |-> <<"a">>, pData |-> 1], [pKey |-> <<"a", "b">>, pData |-> 2]>>
    /\ llRulesetsCmp = "strcasecmp"
    /\ rulesetObj = BatchRulesetObj
    /\ pCurr = 2
    /\ pDflt = 1
    /\ pNew = NULL
    /\ lastOp = NoOp


BatchRulesetPtrs == {NULL, 1, 2}

Uniform(f) == \A i, j \in DOMAIN f : f[i] = f[j]

(* processBatch is called with a batch of at most max elements *)
InitBatchUpTo(max) ==
    /\ BatchRegistryInit
    /\ SessIdle
    /\ CnfIdle
    /\ \E n \in 0..max :
         /\ pUsrRuleset \in [1..n -> BatchRulesetPtrs]
         /\ \E stt \in [1..n -> {BATCH_STATE_RDY, BATCH_STATE_DISC}], single \in BOOLEAN :
              /\ single => Uniform(pUsrRuleset)
              /\ pBatch = [nElem |-> n,
                           pElem |-> [i \in 1..n |-> [pUsrp |-> i, state |-> stt[i]]],
                           bSingleRuleset |-> single,
                           pbShutdownImmediate |-> 1]
    /\ entryBatch = pBatch
    /\ snglRuleBatch = NoBatch
    /\ bShutdownImmediate = FALSE
    /\ pc = "call"
    /\ cur = "orig"
    /\ pThis = NULL
    /\ iRule = 1
    /\ iRetLL = RS_RET_OK
    /\ bHaveUnprocessed = 0
    /\ iRet = RS_RET_OK
    /\ subLog = <<>>
    /\ ruleLog = <<>>
    /\ errAt = 0
    /\ pendAtShut = {}

InitBatch == InitBatchUpTo(MaxElem)

NextBatch ==
    \/ processBatch_call
    \/ processBatchMultiRuleset_pass
    \/ processBatchDoRules
    \/ processBatch_return
    \/ processBatchMultiRuleset_next
    \/ SetShutdownImmediate

SpecBatch == InitBatch /\ [][NextBatch]_vars

(* the thread that runs processBatch keeps running: a step of the router that  *)
(* is possible is eventually taken                                             *)
SpecBatchFair ==
    InitBatchUpTo(MaxElemFair) /\ [][NextBatch]_vars /\ WF_vars(NextBatch)

(* ----- the imtcp module through one config load and activation ----- *)
InitImtcp == BatchRegistryInit /\ BatchIdle /\ SessIdle /\ CnfIdle

DirectiveFields == DOMAIN DirectiveValues

NextImtcp ==
    \/ beginCnfLoad
    \/ \E f \in DirectiveFields : \E v \in DirectiveValues[f] : setDirective(f, v)
    \/ resetConfigVariables
    \/ \E a \in PortArgs : addInstance(a)
    \/ endCnfLoad
    \/ checkCnf
    \/ activateCnfPrePrivDrop

SpecImtcp == InitImtcp /\ [][NextImtcp]_vars

(* ----- the instance list through a config load and its release ----- *)
NextCnfFree ==
    \/ beginCnfLoad
    \/ \E f \in {"pszInputName", "pszBindRuleset", "bSuppOctetFram"} :
          \E v \in DirectiveValues[f] : setDirective(f, v)
    \/ resetConfigVariables
    \/ \E a \in PortArgs : addInstance(a)
    \/ endCnfLoad
    \/ checkCnf
    \/ freeCnf

SpecCnfFree == InitImtcp /\ [][NextCnfFree]_vars

(* ----- a config load with a session cap, activation, and the server's ----- *)
(* ----- accepts and closes                                             ----- *)
SessCaps == {1, 2}

NextServer ==
    \/ beginCnfLoad
    \/ \E k \in SessCaps : setDirective("iTCPSessMax", k)
    \/ addInstance(<<"514">>)
    \/ endCnfLoad
    \/ checkCnf
    \/ activateCnfPrePrivDrop
    \/ \E s \in Sessions : tcpsrvAccept(s)
    \/ \E s \in Sessions : onRegularClose(s)
    \/ \E s \in Sessions : onErrClose(s)

SpecServer == InitImtcp /\ [][NextServer]_vars

(* ======================= claims: batch router ========================== *)
Returned == pc = "done"

MultiPath == ~entryBatch.bSingleRuleset

(* the elements (by pUsrp) that were not DISCARDED on entry *)
EntryReady ==
    {i \in 1..entryBatch.nElem : entryBatch.pElem[i].state # BATCH_STATE_DISC}

(* the sub-batches that hold user message u *)
SubsWith(u) ==
    {k \in 1..Len(subLog) : \E j \in 1..Len(subLog[k].elems) : subLog[k].elems[j] = u}

(* no element is in two sub-batches or twice in one, and a sub-batch holds *)
(* elements of one ruleset only                                            *)
SubBatchesDisjointAndPure ==
    /\ \A u \in 1..entryBatch.nElem : Cardinality(SubsWith(u)) <= 1
    /\ \A k \in 1..Len(subLog) :
          /\ \A a, b \in 1..Len(subLog[k].elems) :
                subLog[k].elems[a] = subLog[k].elems[b] => a = b
          /\ \A j \in 1..Len(subLog[k].elems) :
                pUsrRuleset[subLog[k].elems[j]] = subLog[k].rs

EveryReadyDispatchedOnce ==
    \A u \in EntryReady : Cardinality(SubsWith(u)) = 1

(* C1 as stated: whenever processBatchMultiRuleset has returned, every element *)
(* READY on entry is in exactly one sub-batch, that sub-batch holds only       *)
(* elements of its ruleset, and no element is in two sub-batches.              *)
C1_AsStated ==
    (Returned /\ MultiPath) => (EveryReadyDispatchedOnce /\ SubBatchesDisjointAndPure)

(* C1 (amended): when processBatchMultiRuleset has returned RS_RET_OK, every   *)
(* element READY on entry is in exactly one sub-batch; and at any time no      *)
(* element is in two sub-batches and a sub-batch holds one ruleset only.       *)
C1_PartitionComplete ==
    MultiPath =>
       /\ SubBatchesDisjointAndPure
       /\ (Returned /\ iRet = RS_RET_OK) => EveryReadyDispatchedOnce

C1_Witness ==
    /\ Returned /\ MultiPath /\ iRet = RS_RET_OK
    /\ entryBatch.nElem = 3
    /\ Cardinality(EntryReady) = 2
    /\ Len(subLog) = 2

SetMin(S) == CHOOSE x \in S : \A y \in S : x <= y

(* the elements READY on entry whose ruleset is not that of sub-batches 1..k-1 *)
RemainingBefore(k) ==
    {i \in EntryReady : \A m \in 1..(k - 1) : pUsrRuleset[i] # subLog[m].rs}

(* C2: sub-batches are dispatched in the order in which their rulesets first   *)
(* occur among the not yet DISCARDED elements of the original batch, and the   *)
(* elements of a sub-batch keep their relative order of the original batch.    *)
C2_DispatchOrder ==
    MultiPath =>
       \A k \in 1..Len(subLog) :
          /\ RemainingBefore(k) # {}
          /\ subLog[k].rs = pUsrRuleset[SetMin(RemainingBefore(k))]
          /\ \A a, b \in 1..Len(subLog[k].elems) :
                a < b => subLog[k].elems[a] < subLog[k].elems[b]

C2_Witness ==
    /\ Returned /\ MultiPath
    /\ pUsrRuleset = <<1, 2, 1, 2>>
    /\ EntryReady = 1..4
    /\ Len(subLog) = 2
    /\ subLog[1].rs = 1 /\ subLog[1].elems = <<1, 3>>
    /\ subLog[2].rs = 2 /\ subLog[2].elems = <<2, 4>>

(* C3 as stated: once the shutdown flag is set no further sub-batch is started *)
(* and at most one rule invocation (the one in flight; an invocation is one    *)
(* step here) still runs with the flag set before processBatch returns.        *)
C3_AsStated ==
    /\ \A k \in 1..Len(subLog) : ~subLog[k].shut
    /\ Cardinality({k \in 1..Len(ruleLog) : ruleLog[k].shut}) <= 1

(* C4 as stated: the elements whose ruleset had not been dispatched when the   *)
(* flag was set during a multi-ruleset dispatch are not DISCARDED in the       *)
(* original batch when processBatch returns.                                   *)
C4_AsStated ==
    Returned =>
       \A u \in pendAtShut : pBatch.pElem[u].state # BATCH_STATE_DISC

(* the ruleset a single-ruleset batch goes to *)
ExpectedRuleset(b) ==
    IF b.nElem > 0 /\ pUsrRuleset[b.pElem[1].pUsrp] # NULL
    THEN pUsrRuleset[b.pElem[1].pUsrp]
    ELSE pDflt

RuleIds(rs) == [k \in 1..Len(rulesetObj[rs].llRules) |-> rulesetObj[rs].llRules[k].id]

(* C5: with single_ruleset = true the whole batch goes to the rules of one     *)
(* ruleset, the batch's or (batch ruleset null) the default; the rules run in  *)
(* insertion order, each on the whole batch before the next starts, and the    *)
(* element order is unchanged.                                                 *)
C5_SingleRulesetPath ==
    entryBatch.bSingleRuleset =>
       LET rs == ExpectedRuleset(entryBatch) IN
       /\ subLog = <<>>
       /\ UsrOf(pBatch) = UsrOf(entryBatch)
       /\ \A k \in 1..Len(ruleLog) :
             /\ ruleLog[k].rs = rs
             /\ k <= Len(RuleIds(rs))
             /\ ruleLog[k].rule = RuleIds(rs)[k]
             /\ ruleLog[k].elems = UsrOf(entryBatch)
       /\ Returned => Len(ruleLog) = Len(RuleIds(rs))

C5_Witness ==
    /\ Returned /\ entryBatch.bSingleRuleset
    /\ entryBatch.nElem = 2
    /\ pUsrRuleset = <<NULL, NULL>>
    /\ Len(ruleLog) = 2
    /\ ruleLog[1].rule = "r1" /\ ruleLog[2].rule = "r2"

(* the rules invoked on sub-batch k (k = 0: on the caller's batch) *)
RulesInvokedOn(k) ==
    LET inv == SelectSeq(ruleLog, LAMBDA e : e.sub = k)
    IN [j \in 1..Len(inv) |-> inv[j].rule]

C7_CloseCallbacks ==
    \A s \in Sessions :
       /\ sess[s].cb = "regular" =>
             /\ sess[s].calls = <<"PrepareClose", "Close">>
             /\ sess[s].st = "closed"
             /\ ~sess[s].pending
       /\ sess[s].cb = "error" =>
             /\ sess[s].calls = <<"Close">>
             /\ sess[s].st = "closed"
             /\ sess[s].emitted = 0
       /\ sess[s].cb = "none" => sess[s].calls = <<>>

C7_Witness ==
    \E s, t \in Sessions :
       /\ sess[s].cb = "regular" /\ sess[s].emitted = 1
       /\ sess[t].cb = "error" /\ sess[t].pending

(* ======================= claims: ruleset registry ====================== *)
Lower(str) == [i \in 1..Len(str) |-> tolower(str[i])]

SameNameIgnoringCase(a, b) == Lower(a) = Lower(b)

(* the registry entries whose name equals n ignoring letter case *)
MatchesOf(n) ==
    {i \in 1..Len(llRulesets) : SameNameIgnoringCase(llRulesets[i].pKey, n)}

TheMatch(n) == llRulesets[CHOOSE i \in MatchesOf(n) : TRUE].pData

RegistryFrame == <<llRulesets, llRulesetsCmp, rulesetObj>>

C10_SetDefaultCurrentFrame ==
    [][/\ lastOp'.op = "SetDefaultRuleset" =>
             IF MatchesOf(lastOp'.name) = {}
             THEN UNCHANGED <<RegistryFrame, pCurr, pDflt>>
             ELSE /\ pDflt' = TheMatch(lastOp'.name)
                  /\ UNCHANGED <<RegistryFrame, pCurr>>
       /\ lastOp'.op = "SetCurrRuleset" =>
             IF MatchesOf(lastOp'.name) = {}
             THEN UNCHANGED <<RegistryFrame, pCurr, pDflt>>
             ELSE /\ pCurr' = TheMatch(lastOp'.name)
                  /\ UNCHANGED <<RegistryFrame, pDflt>>]_vars

C10_Witness ==
    /\ lastOp.op = "SetDefaultRuleset"
    /\ lastOp.ret = RS_RET_NOT_FOUND
    /\ Len(llRulesets) = 2
    /\ pDflt # NULL
    /\ pCurr # pDflt

(* C11: a finalize with no default set makes the finalized ruleset the default *)
(* and a finalize with a default set keeps it; whenever the registry is not    *)
(* empty the default pointer designates one ruleset of the registry; and as    *)
(* long as set_default is not used it is the first ruleset registered since    *)
(* the registry was last empty.                                                *)
C11_DefaultIsFirstFinalized ==
    /\ [](llRulesets # <<>> =>
            /\ pDflt \in Registered
            /\ rulesetObj[pDflt].st = "live")
    /\ [][(/\ (lastOp'.op = "rulesetConstructFinalize" /\ pNew # NULL) =>
                 (IF lastOp'.ret = RS_RET_OK /\ pDflt = NULL
                  THEN pDflt' = pNew
                  ELSE pDflt' = pDflt)
           /\ lastOp'.op # "SetDefaultRuleset" =>
                 ((llRulesets = <<>> \/ pDflt = llRulesets[1].pData)
                    => (llRulesets' = <<>> \/ pDflt' = llRulesets'[1].pData)))]_vars

C11_Witness ==
    /\ lastOp.op = "rulesetConstructFinalize"
    /\ lastOp.ret = RS_RET_OK
    /\ Len(llRulesets) = 2
    /\ pDflt = llRulesets[1].pData
    /\ pCurr = llRulesets[2].pData
    /\ \E p \in Rulesets : rulesetObj[p].st = "destroyed"

(* ================== claims: directives of a config load ================ *)
(* the rule the last addRule was called with *)
RegistryPtrs == <<llRulesets, llRulesetsCmp, pCurr, pDflt, pNew>>

(* addRule stored pRule at the end of ruleset p and changed nothing else *)
AppendedOnly(p, pRule) ==
    /\ rulesetObj' = [rulesetObj EXCEPT ![p].llRules = Append(@, pRule)]
    /\ UNCHANGED RegistryPtrs

(* the last step was addRule(p, r) *)
AddRuleStep(p, r) ==
    lastOp'.op = "addRule" /\ lastOp'.p = p /\ lastOp'.name = <<r>>

(* what addRule does with a rule without actions *)
ZeroActionRuleDropped ==
    \A p \in Rulesets : \A r \in RuleInputs(p, Len(rulesetObj[p].llRules)) :
       (AddRuleStep(p, r) /\ Len(r.llActList) = 0) =>
           /\ UNCHANGED <<rulesetObj, RegistryPtrs>>
           /\ lastOp'.ret = RS_RET_OK
           /\ lastOp'.log = <<LogMsg("warning: selector line without actions will be discarded"),
                              [ev |-> "rule.Destruct", arg |-> r.id]>>

NoStoredRuleWithoutAction ==
    \A p \in Rulesets : \A i \in 1..Len(rulesetObj[p].llRules) :
       Len(rulesetObj[p].llRules[i].llActList) > 0

(* C12 as stated: a rule without actions is dropped with a warning and the     *)
(* registry is unchanged; every rule with at least one action is appended at   *)
(* the end of the rule sequence; no stored rule has zero actions.              *)
C12_AsStated ==
    /\ []NoStoredRuleWithoutAction
    /\ [][/\ ZeroActionRuleDropped
           /\ \A p \in Rulesets : \A r \in RuleInputs(p, Len(rulesetObj[p].llRules)) :
                (AddRuleStep(p, r) /\ Len(r.llActList) > 0) => AppendedOnly(p, r)]_vars

(* C12: a rule without actions is dropped with a warning and the registry is   *)
(* unchanged; a rule with at least one action is appended at the end of the    *)
(* rule sequence when llAppend succeeds and leaves the registry unchanged,     *)
(* returning the error, when it fails; no stored rule has zero actions.        *)
C12_ZeroActionRuleRejected ==
    /\ []NoStoredRuleWithoutAction
    /\ [][/\ ZeroActionRuleDropped
           /\ \A p \in Rulesets : \A r \in RuleInputs(p, Len(rulesetObj[p].llRules)) :
                (AddRuleStep(p, r) /\ Len(r.llActList) > 0) =>
                    IF lastOp'.ret = RS_RET_OK
                    THEN AppendedOnly(p, r)
                    ELSE /\ UNCHANGED <<rulesetObj, RegistryPtrs>>
                         /\ lastOp'.log = <<>>]_vars

C12_Witness ==
    /\ lastOp.op = "addRule"
    /\ Len(lastOp.name[1].llActList) = 0
    /\ lastOp.log # <<>>
    /\ lastOp.p = pCurr
    /\ Len(rulesetObj[pCurr].llRules) = 1
    /\ Len(llRulesets) = 2

(* the last step was the rulesetcreatemainqueue directive *)
CreateQueueStep == lastOp'.op = "doRulesetCreateQueue"

(* C13: rulesetcreatemainqueue returns NO_CURR_RULESET when no current ruleset *)
(* is set and RULES_QUEUE_EXISTS when the current ruleset has a queue, and     *)
(* changes nothing in either case; a ruleset's queue, once created, stays the  *)
(* same until the ruleset is destroyed.                                        *)
C13_QueueCreatedOnce ==
    [][/\ (CreateQueueStep /\ pCurr = NULL) =>
             /\ lastOp'.ret = RS_RET_NO_CURR_RULESET
             /\ UNCHANGED <<rulesetObj, RegistryPtrs>>
       /\ (CreateQueueStep /\ pCurr # NULL /\ rulesetObj[pCurr].st = "live"
              /\ rulesetObj[pCurr].pQueue # NULL) =>
             /\ lastOp'.ret = RS_RET_RULES_QUEUE_EXISTS
             /\ UNCHANGED <<rulesetObj, RegistryPtrs>>
       /\ \A p \in Rulesets :
             rulesetObj[p].pQueue # NULL =>
                \/ rulesetObj'[p].pQueue = rulesetObj[p].pQueue
                \/ rulesetObj'[p].st = "destroyed"]_vars

C13_Witness ==
    /\ lastOp.op = "doRulesetCreateQueue"
    /\ lastOp.ret = RS_RET_RULES_QUEUE_EXISTS
    /\ lastOp.p = pCurr
    /\ rulesetObj[pCurr].st = "live"
    /\ rulesetObj[pCurr].pQueue # NULL
    /\ \E q \in Rulesets : q # pCurr /\ rulesetObj[q].st = "live" /\ rulesetObj[q].pQueue = NULL

(* C14 as stated: the rulesetparser directive naming a parser that is not      *)
(* registered returns the error kind PARSER_NOT_FOUND and leaves the parser    *)
(* list of the current ruleset (and of every other ruleset) unchanged.         *)
C14_AsStated ==
    [][\A n \in ParserNames :
          (lastOp'.op = "doRulesetAddParser" /\ lastOp'.name = <<n>>
             /\ n \notin ParserRegistry /\ lastOp'.log # <<>>) =>
                /\ lastOp'.ret = RS_RET_PARSER_NOT_FOUND
                /\ UNCHANGED <<rulesetObj, RegistryPtrs>>]_vars

(* the actions of the registry by position: ruleset i of the registry list,    *)
(* rule j of that ruleset, action k of that rule                               *)
ActionPositions ==
    {t \in (1..Len(llRulesets)) \X (1..MaxRules + 1) \X (1..2) :
        /\ t[2] <= Len(rulesetObj[llRulesets[t[1]].pData].llRules)
        /\ t[3] <= Len(rulesetObj[llRulesets[t[1]].pData].llRules[t[2]].llActList)}

ActionAt(t) == rulesetObj[llRulesets[t[1]].pData].llRules[t[2]].llActList[t[3]]

(* registry order, then rule order, then action order *)
Before(s, t) ==
    \/ s[1] < t[1]
    \/ s[1] = t[1] /\ s[2] < t[2]
    \/ s[1] = t[1] /\ s[2] = t[2] /\ s[3] < t[3]

QueueDestructs(op, p) ==
    {k \in 1..Len(op.log) : op.log[k].ev = "qqueueDestruct" /\ op.log[k].arg[1] = p}

RulesDestroys(op, p) ==
    {k \in 1..Len(op.log) : op.log[k].ev = "llDestroy" /\ op.log[k].arg[1] = p}

(* C16: destroy_all destroys every ruleset of the registry with its rules and  *)
(* its queue, each once, and no other ruleset; afterwards the registry is      *)
(* empty, the lookup of every name fails and the default pointer is NULL; the  *)
(* first ruleset finalized after it becomes the default.                       *)
C16_DestroyAll ==
    [][/\ lastOp'.op = "destructAllActions" =>
             /\ llRulesets' = <<>>
             /\ pDflt' = NULL
             /\ \A n \in Names : (rulesetGetRuleset(n).ret # RS_RET_OK)'
             /\ \A p \in Rulesets :
                   IF p \in Registered
                   THEN /\ rulesetObj'[p].st = "destroyed"
                        /\ rulesetObj'[p].llRules = <<>>
                        /\ rulesetObj'[p].pQueue = NULL
                        /\ Cardinality(RulesDestroys(lastOp', p)) = 1
                        /\ Cardinality(QueueDestructs(lastOp', p)) =
                              (IF rulesetObj[p].pQueue # NULL THEN 1 ELSE 0)
                   ELSE /\ rulesetObj'[p] = rulesetObj[p]
                        /\ RulesDestroys(lastOp', p) = {}
                        /\ QueueDestructs(lastOp', p) = {}
       /\ (lastOp'.op = "rulesetConstructFinalize" /\ lastOp'.ret = RS_RET_OK
              /\ llRulesets = <<>>) =>
             /\ pDflt' = pNew
             /\ llRulesets' = <<[pKey |-> rulesetObj[pNew].pszName[1], pData |-> pNew]>>]_vars

C16_Witness ==
    /\ lastOp.op = "destructAllActions"
    /\ Cardinality({p \in Rulesets : QueueDestructs(lastOp, p) # {}}) = 1
    /\ Cardinality({p \in Rulesets : RulesDestroys(lastOp, p) # {}}) = 2
    /\ \E k \in 1..Len(lastOp.log) :
          lastOp.log[k].ev = "llDestroy" /\ Len(lastOp.log[k].arg[2]) = 2
    /\ pCurr # NULL
    /\ pNew # NULL

(* ======================= claims: imtcp activation ====================== *)
Activated == cnfPhase = "activated"

(* the positions in the server's call record of the calls to fn that returned ret *)
CallsOf(fn, ret) ==
    {k \in 1..Len(tcpsrvObj.calls) :
        tcpsrvObj.calls[k].fn = fn /\ tcpsrvObj.calls[k].ret = ret}

CallsTo(fn) == CallsOf(fn, RS_RET_OK) \cup CallsOf(fn, RS_RET_ERR)

(* the setters of the module-level parameters, lines 259-266 *)
ParamSetters ==
    {"SetKeepAlive", "SetSessMax", "SetLstnMax", "SetDrvrMode", "SetUseFlowControl",
     "SetAddtlFrameDelim", "SetbDisableLFDelim", "SetNotificationOnRemoteClose"}

(* every callback and every module-level parameter was installed before call k *)
InstalledBefore(k) ==
    /\ \A c \in 1..Len(CallbackSetters) :
          \E j \in CallsOf(CallbackSetters[c], RS_RET_OK) : j < k
    /\ \A fn \in ParamSetters : \E j \in CallsOf(fn, RS_RET_OK) : j < k
    /\ pModConf.pszStrmDrvrAuthMode # <<>> =>
          \E j \in CallsOf("SetDrvrAuthMode", RS_RET_OK) : j < k

(* C17 as stated: after activation at most one server was constructed, every   *)
(* configure_listen call comes after the five callbacks and the module-level   *)
(* parameters were installed, and when a server exists construct_finalize was  *)
(* called exactly once, as the last call                                       *)
C17_AsStated ==
    Activated =>
       /\ Cardinality(CallsOf("Construct", RS_RET_OK)) <= 1
       /\ \A k \in CallsTo("configureTCPListen") : InstalledBefore(k)
       /\ pOurTcpsrv # NULL =>
             /\ Cardinality(CallsTo("ConstructFinalize")) = 1
             /\ CallsTo("ConstructFinalize") = {Len(tcpsrvObj.calls)}

NoInstances == pModConf.root = <<>>

UnknownBinding(i) ==
    /\ pModConf.root[i].pszBindRuleset # <<>>
    /\ rulesetGetRuleset(pModConf.root[i].pszBindRuleset[1]).ret # RS_RET_OK

(* the warning of std_checkRuleset_genErrMsg for instance i is in the log *)
WarnedAbout(i) ==
    \E k \in 1..Len(errLog) :
       /\ errLog[k].arg = "ruleset not found - using default ruleset instead"
       /\ pModConf.root[i].pszBindRuleset # <<>>
       /\ errLog[k].ruleset = pModConf.root[i].pszBindRuleset[1]
       /\ errLog[k].port = pModConf.root[i].pszBindPort

(* no addListner of the activation met a failing tcpsrv call *)
AllListnersAdded ==
    \A k \in 1..Len(errLog) : errLog[k].arg # "error trying to add listener"

(* C19: an unknown bind-ruleset name fails neither config check nor activation.*)
(* Config check returns success whenever there is an instance; an instance     *)
(* with an unknown name gets the warning and a NULL resolved ruleset, every    *)
(* other instance the ruleset its name resolves to (NULL without a name). When *)
(* every listener was added, listener i carries the resolved ruleset of        *)
(* instance i, NULL (the default ruleset) for the unknown name, and activation *)
(* returns what ConstructFinalize returned                                     *)
C19_UnknownBindRuleset ==
    /\ (cnfPhase \in {"checked", "activated"} /\ ~NoInstances) =>
          /\ modRet["checkCnf"] = RS_RET_OK
          /\ \A i \in 1..Len(pModConf.root) :
                LET inst == pModConf.root[i] IN
                IF UnknownBinding(i)
                THEN inst.pBindRuleset = NULL /\ WarnedAbout(i)
                ELSE /\ ~WarnedAbout(i)
                     /\ inst.pBindRuleset =
                           (IF inst.pszBindRuleset = <<>> THEN NULL
                            ELSE rulesetGetRuleset(inst.pszBindRuleset[1]).p)
    /\ (Activated /\ ~NoInstances /\ AllListnersAdded) =>
          /\ Len(tcpsrvObj.lstn) = Len(pModConf.root)
          /\ \A i \in 1..Len(pModConf.root) :
                tcpsrvObj.lstn[i].pRuleset = pModConf.root[i].pBindRuleset
          /\ modRet["activateCnfPrePrivDrop"] =
                tcpsrvObj.calls[Len(tcpsrvObj.calls)].ret
          /\ tcpsrvObj.calls[Len(tcpsrvObj.calls)].fn = "ConstructFinalize"

C19_Witness ==
    /\ Activated
    /\ Len(pModConf.root) = 2
    /\ UnknownBinding(1)
    /\ ~UnknownBinding(2)
    /\ WarnedAbout(1)
    /\ modRet["checkCnf"] = RS_RET_OK
    /\ modRet["activateCnfPrePrivDrop"] = RS_RET_OK
    /\ Len(tcpsrvObj.lstn) = 2
    /\ tcpsrvObj.lstn[1].pRuleset = NULL
    /\ tcpsrvObj.lstn[2].pRuleset = 2

(* ==================== claims: imtcp config directives ================== *)
(* the defaults the scratch directive values are said to return to *)
ScratchDefaults ==
    [iTCPSessMax |-> 200, iTCPLstnMax |-> 20, bSuppOctetFram |-> 1, iStrmDrvrMode |-> 0,
     bKeepAlive |-> 0, bEmitMsgOnClose |-> 0, bUseFlowControl |-> 0,
     bDisableLFDelim |-> 0, iAddtlFrameDelim |-> TCPSRV_NO_ADDTL_DELIMITER,
     pszStrmDrvrAuthMode |-> <<>>, pszInputName |-> <<>>, pszBindRuleset |-> <<>>]

AfterReset == cnfPhase = "load" /\ modRet["last"] = "resetConfigVariables"

(* C20 as stated: right after resetconfigvariables every scratch value is at   *)
(* its default, bind ruleset included, and an inputtcpserverrun that comes     *)
(* next creates an instance with no input name and no bind ruleset             *)
C20_AsStated ==
    /\ [](AfterReset => cs = ScratchDefaults)
    /\ [][(AfterReset /\ modRet'["last"] = "addInstance"
              /\ modRet'["addInstance"] = RS_RET_OK) =>
             LET inst == pModConf'.root[Len(pModConf'.root)] IN
             /\ Len(pModConf'.root) = Len(pModConf.root) + 1
             /\ inst.pszInputName = <<>>
             /\ inst.pszBindRuleset = <<>>]_vars

(* the step is a call of the entry point or handler fn *)
StepOf(fn) == modRet'["last"] = fn /\ vars' # vars

(* root' is root with one more instance at the tail *)
OneMoreAtTail == 
    /\ Len(pModConf'.root) = Len(pModConf.root) + 1
    /\ \A i \in 1..Len(pModConf.root) : pModConf'.root[i] = pModConf.root[i]

(* the instance holds the scratch values in effect before the step *)
CopyOfScratch(inst) ==
    /\ inst.pszInputName = (IF IsNullOrEmpty(cs.pszInputName) THEN <<>> ELSE cs.pszInputName)
    /\ inst.pszBindRuleset =
          (IF IsNullOrEmpty(cs.pszBindRuleset) THEN <<>> ELSE cs.pszBindRuleset)
    /\ inst.bSuppOctetFram = cs.bSuppOctetFram
    /\ inst.pszBindPort \in {"10514", "514"}

(* what the directive surface stored in an instance *)
Configured(inst) ==
    <<inst.pszBindPort, inst.pszInputName, inst.pszBindRuleset, inst.bSuppOctetFram>>

(* C21 as stated: every inputtcpserverrun appends one instance at the tail *)
C21_AsStated ==
    [][StepOf("addInstance") => OneMoreAtTail]_vars

(* C21, amended: an inputtcpserverrun that succeeds appends one instance at    *)
(* the tail, a copy of the input name, bind-ruleset name and octet-framing     *)
(* flag in effect at that moment, and one that fails leaves the list alone; no *)
(* other step adds, removes or reorders instances or changes what an instance  *)
(* was configured with (config check only fills in the resolved ruleset)       *)
C21_InstanceAppended ==
    [][/\ StepOf("addInstance") =>
             IF modRet'["addInstance"] = RS_RET_OK
             THEN /\ OneMoreAtTail
                  /\ CopyOfScratch(pModConf'.root[Len(pModConf'.root)])
             ELSE pModConf'.root = pModConf.root
       /\ (~StepOf("addInstance") /\ ~StepOf("checkCnf")) =>
             pModConf'.root = pModConf.root
       /\ StepOf("checkCnf") =>
             /\ Len(pModConf'.root) = Len(pModConf.root)
             /\ \A i \in 1..Len(pModConf.root) :
                   Configured(pModConf'.root[i]) = Configured(pModConf.root[i])]_vars

C21_Witness ==
    /\ cnfPhase = "load"
    /\ Len(pModConf.root) = 2
    /\ pModConf.root[1].pszInputName = <<>>
    /\ pModConf.root[2].pszInputName # <<>>
    /\ pModConf.root[2].bSuppOctetFram = 1
    /\ cs.bSuppOctetFram = 0
    /\ modRet["last"] = "setDirective"

(* C22 as stated: when a tcpsrv call of some addListner returned an error,     *)
(* activation returns a failure and construct_finalize is not called           *)
C22_AsStated ==
    (Activated /\ ~AllListnersAdded) =>
       /\ modRet["activateCnfPrePrivDrop"] # RS_RET_OK
       /\ CallsTo("ConstructFinalize") = {}

(* ======================= claims: session cap =========================== *)
(* the server was handed a session cap: a SetSessMax call returned success *)
CapHandedOver == CallsOf("SetSessMax", RS_RET_OK) # {}

(* the step takes incoming stream s out of the waiting state *)
Incoming(s) == sess[s].st = "none" /\ sess'[s].st # "none"

InOrderMaps ==
    {f \in [1..Len(tcpsrvObj.lstn) -> 1..Len(pModConf.root)] :
        \A a, b \in 1..Len(tcpsrvObj.lstn) : a < b => f[a] < f[b]}

(* the position of the j-th configure_listen call in the server's call record *)
ListenCallPos(j) ==
    CHOOSE k \in CallsTo("configureTCPListen") :
       Cardinality({l \in CallsTo("configureTCPListen") : l <= k}) = j

InputNameOf(inst) ==
    IF inst.pszInputName = <<>> THEN <<"i", "m", "t", "c", "p">> ELSE inst.pszInputName[1]

(* listener j is the listener of instance inst: the two calls before its       *)
(* configure_listen gave the server inst's resolved ruleset and input name,    *)
(* the call itself has inst's port and octet-framing flag, and the listener    *)
(* carries all four                                                            *)
ListenerOf(j, inst) ==
    LET k == ListenCallPos(j) IN
    /\ k > 2
    /\ tcpsrvObj.calls[k - 2] =
          [fn |-> "SetRuleset", arg |-> inst.pBindRuleset, ret |-> RS_RET_OK]
    /\ tcpsrvObj.calls[k - 1] =
          [fn |-> "SetInputName", arg |-> InputNameOf(inst), ret |-> RS_RET_OK]
    /\ tcpsrvObj.calls[k].arg = <<inst.pszBindPort, inst.bSuppOctetFram>>
    /\ tcpsrvObj.lstn[j] = [port |-> inst.pszBindPort,
                            bSuppOctetFram |-> inst.bSuppOctetFram,
                            pRuleset |-> inst.pBindRuleset,
                            pszInputName |-> InputNameOf(inst)]

(* C24: after activation the listeners are, in directive order, the listeners  *)
(* of the instances (all of them when no addListner failed); each was          *)
(* configured right after the server received its own instance's resolved      *)
(* ruleset and input name ("imtcp" without one), with its own instance's port  *)
(* and octet-framing flag, and is bound to that ruleset and input name         *)
C24_ListenerOwnBinding ==
    Activated =>
       /\ Cardinality(CallsTo("configureTCPListen")) = Len(tcpsrvObj.lstn)
       /\ Len(tcpsrvObj.lstn) <= Len(pModConf.root)
       /\ \E f \in InOrderMaps :
             \A j \in 1..Len(tcpsrvObj.lstn) : ListenerOf(j, pModConf.root[f[j]])
       /\ AllListnersAdded => Len(tcpsrvObj.lstn) = Len(pModConf.root)

C24_Witness ==
    /\ Activated
    /\ Len(pModConf.root) = 2
    /\ Len(tcpsrvObj.lstn) = 2
    /\ tcpsrvObj.lstn[1].pszInputName = <<"i", "m", "t", "c", "p">>
    /\ tcpsrvObj.lstn[2].pszInputName = <<"i", "n", "1">>
    /\ tcpsrvObj.lstn[1].pRuleset = NULL
    /\ tcpsrvObj.lstn[2].pRuleset = 2

(* ================= claims: current and default pointer ================= *)
(* p is NULL or a ruleset that is in the registry and not destroyed *)
NullOrRegistered(p) ==
    p = NULL \/ (p \in Registered /\ rulesetObj[p].st = "live")

(* C25 as stated: the current and the default pointer are each NULL or refer   *)
(* to a ruleset still in the registry, and a rulesetparser or                  *)
(* rulesetcreatemainqueue directive never runs with a destroyed current ruleset *)
C25_AsStated ==
    /\ [](NullOrRegistered(pCurr) /\ NullOrRegistered(pDflt))
    /\ [][(lastOp'.op \in {"doRulesetCreateQueue", "doRulesetAddParser"}
              /\ pCurr # NULL) =>
             rulesetObj[pCurr].st # "destroyed"]_vars

(* ================ claims: the original batch of the router ============= *)
StateOf(b) == [i \in 1..b.nElem |-> b.pElem[i].state]

(* C26: on the multi-ruleset path the element count, the element order and the *)
(* user message pointers of the original batch stay as on entry, as do its     *)
(* other fields; a state changes only from not DISCARDED to DISCARDED and only *)
(* in a partitioning pass, never while rules work on a sub-batch; when the     *)
(* router has returned RS_RET_OK every element is DISCARDED                    *)
C26_OnlyStatesChange ==
    /\ [](MultiPath =>
             /\ pBatch.nElem = entryBatch.nElem
             /\ UsrOf(pBatch) = UsrOf(entryBatch)
             /\ pBatch.bSingleRuleset = entryBatch.bSingleRuleset
             /\ pBatch.pbShutdownImmediate = entryBatch.pbShutdownImmediate
             /\ (Returned /\ iRet = RS_RET_OK) =>
                   \A i \in 1..pBatch.nElem : pBatch.pElem[i].state = BATCH_STATE_DISC)
    /\ [][MultiPath =>
             /\ ruleLog' # ruleLog => pBatch' = pBatch
             /\ \A i \in 1..pBatch.nElem :
                   StateOf(pBatch')[i] # StateOf(pBatch)[i] =>
                      /\ StateOf(pBatch')[i] = BATCH_STATE_DISC
                      /\ Len(subLog') = Len(subLog) + 1]_vars

C26_Witness ==
    /\ Returned /\ MultiPath /\ iRet = RS_RET_OK
    /\ entryBatch.nElem = 3
    /\ Cardinality(EntryReady) = 3
    /\ Len(subLog) = 2
    /\ Len(ruleLog) >= 2
    /\ \A i \in 1..pBatch.nElem : pBatch.pElem[i].state = BATCH_STATE_DISC

(* the rulesets of the elements that were not DISCARDED on entry *)
EntryRulesets == {pUsrRuleset[i] : i \in EntryReady}

DispatchedRulesets == {subLog[k].rs : k \in 1..Len(subLog)}

(* C27 as stated: the router returns, and when it has returned it has          *)
(* dispatched exactly as many sub-batches as there are distinct rulesets among *)
(* the elements not DISCARDED on entry                                         *)
C27_AsStated ==
    /\ <>Returned
    /\ []((Returned /\ MultiPath) => Len(subLog) = Cardinality(EntryRulesets))

(* C27, amended: the router always returns; every pass dispatches a ruleset    *)
(* not dispatched before, so there are never more sub-batches than distinct    *)
(* rulesets among the elements not DISCARDED on entry; there are exactly as    *)
(* many when it has returned RS_RET_OK, and none for an empty batch or a batch *)
(* whose elements are all DISCARDED on entry                                   *)
C27_PartitionTerminates ==
    /\ <>Returned
    /\ [](MultiPath =>
             /\ Cardinality(DispatchedRulesets) = Len(subLog)
             /\ DispatchedRulesets \subseteq EntryRulesets
             /\ (Returned /\ iRet = RS_RET_OK) => DispatchedRulesets = EntryRulesets
             /\ EntryReady = {} => subLog = <<>>)

C27_Witness ==
    /\ Returned /\ MultiPath /\ iRet = RS_RET_OK
    /\ entryBatch.nElem = 3
    /\ Cardinality(EntryReady) = 3
    /\ Cardinality(EntryRulesets) = 3
    /\ Len(subLog) = 3

(* ================= claims: the server's initialisation ================= *)
(* C28 as stated: every configure_listen call and every construct_finalize     *)
(* call on the server comes after all five callbacks and all module-level      *)
(* parameters were installed on it                                             *)
C28_AsStated ==
    \A k \in CallsTo("configureTCPListen") \cup CallsTo("ConstructFinalize") :
       InstalledBefore(k)

(* ==================== claims: release of a config ====================== *)
(* C29 as stated: once freeCnf has run no allocation made by addInstance is    *)
(* still live                                                                  *)
C29_AsStated ==
    cnfPhase = "freed" => heap = {}

====
